---- MODULE Spec2Model ----
(***************************************************************************)
(* A model of the anthill scene pipeline: utils/json_loader.py (format     *)
(* detection and the two sub-parsers), models/mesh.py (the element and     *)
(* scene models, summary rows) and components/charts.py (the carbon        *)
(* aggregation engine), with the classifier of app.py.                     *)
(*                                                                         *)
(* Python values are tagged records: None, numbers, strings, lists and     *)
(* dicts (a dict is the sequence of its key/value pairs in insertion       *)
(* order).  Numbers are integers: every float of the inputs drawn here is  *)
(* integral and arithmetic is exact.  A call that raises is modelled by an *)
(* outcome record [kind |-> <exception class>, msg |-> <message>]; a call  *)
(* that returns by [kind |-> "ok", v |-> <value>].                         *)
(***************************************************************************)
EXTENDS Integers, Sequences, FiniteSets, TLC

(***************************************************************************)
(* Bounds of the model.                                                    *)
(***************************************************************************)
\* longest list of element records in one system of a structural frame
MaxElems == 2
\* longest list of geometry blocks in a mesh export
MaxBlocks == 3

(***************************************************************************)
(* Python values.                                                          *)
(***************************************************************************)
PyNone == [t |-> "null"]
PyNum(n) == [t |-> "num", n |-> n]
PyStr(s) == [t |-> "str", s |-> s]
PyList(items) == [t |-> "list", items |-> items]
PyDict(pairs) == [t |-> "dict", pairs |-> pairs]
KV(k, v) == [k |-> k, v |-> v]

IsNone(v) == v.t = "null"
IsNum(v) == v.t = "num"
IsStr(v) == v.t = "str"
IsList(v) == v.t = "list"
IsDict(v) == v.t = "dict"

Ok(v) == [kind |-> "ok", v |-> v]
Raise(kind, msg) == [kind |-> kind, msg |-> msg]
IsOk(o) == o.kind = "ok"

\* the class name Python prints in "'int' object has no attribute ..."
TypeName(v) ==
  CASE IsNone(v) -> "NoneType"
    [] IsNum(v) -> "int"
    [] IsStr(v) -> "str"
    [] IsList(v) -> "list"
    [] OTHER -> "dict"

\* bool(v)
Truthy(v) ==
  CASE IsNone(v) -> FALSE
    [] IsNum(v) -> v.n # 0
    [] IsStr(v) -> v.s # ""
    [] IsList(v) -> v.items # <<>>
    [] OTHER -> v.pairs # <<>>

\* a or b
PyOr(a, b) == IF Truthy(a) THEN a ELSE b

(***************************************************************************)
(* dict operations on the pair sequence.                                   *)
(***************************************************************************)
Keys(d) == [i \in 1..Len(d.pairs) |-> d.pairs[i].k]
HasKey(d, key) == \E i \in 1..Len(d.pairs) : d.pairs[i].k = key
Lookup(d, key) == d.pairs[CHOOSE i \in 1..Len(d.pairs) : d.pairs[i].k = key].v
\* d.get(key, default)
GetOr(d, key, default) == IF HasKey(d, key) THEN Lookup(d, key) ELSE default
\* d.get(key)
Get(d, key) == GetOr(d, key, PyNone)
\* d[key] = value: an existing key keeps its place
SetItem(pairs, key, value) ==
  IF \E i \in 1..Len(pairs) : pairs[i].k = key
  THEN [i \in 1..Len(pairs) |-> IF pairs[i].k = key THEN KV(key, value) ELSE pairs[i]]
  ELSE Append(pairs, KV(key, value))

RECURSIVE Update(_, _)
\* target.update(source), on pair sequences
Update(target, source) ==
  IF source = <<>> THEN target
  ELSE Update(SetItem(target, Head(source).k, Head(source).v), Tail(source))

(***************************************************************************)
(* str operations.  TLC's Len, SubSeq and \o work on strings.              *)
(***************************************************************************)
Char(s, i) == SubSeq(s, i, i)
Upper == "ABCDEFGHIJKLMNOPQRSTUVWXYZ"
Lower == "abcdefghijklmnopqrstuvwxyz"
Digits == "0123456789"
InChars(c, chars) == \E i \in 1..Len(chars) : Char(chars, i) = c
IndexIn(c, chars) == CHOOSE i \in 1..Len(chars) : Char(chars, i) = c
\* the lower-case letter of each upper-case letter
UpperToLower ==
  [c \in {Char(Upper, i) : i \in 1..Len(Upper)} |-> Char(Lower, IndexIn(c, Upper))]
LowerChar(c) == IF c \in DOMAIN UpperToLower THEN UpperToLower[c] ELSE c

RECURSIVE lower(_)
\* s.lower()
lower(s) == IF s = "" THEN "" ELSE LowerChar(Char(s, 1)) \o lower(SubSeq(s, 2, Len(s)))

\* sub in s
Contains(s, sub) ==
  \E i \in 1..(Len(s) - Len(sub) + 1) : SubSeq(s, i, i + Len(sub) - 1) = sub
startswith(s, prefix) == Len(s) >= Len(prefix) /\ SubSeq(s, 1, Len(prefix)) = prefix
endswith(s, suffix) ==
  Len(s) >= Len(suffix) /\ SubSeq(s, Len(s) - Len(suffix) + 1, Len(s)) = suffix

RECURSIVE LStrip(_, _)
LStrip(s, chars) ==
  IF s # "" /\ InChars(Char(s, 1), chars) THEN LStrip(SubSeq(s, 2, Len(s)), chars) ELSE s
RECURSIVE RStrip(_, _)
RStrip(s, chars) ==
  IF s # "" /\ InChars(Char(s, Len(s)), chars)
  THEN RStrip(SubSeq(s, 1, Len(s) - 1), chars) ELSE s
\* s.strip(chars); s.strip() strips white space
strip(s, chars) == RStrip(LStrip(s, chars), chars)
WhiteSpace == " "

RECURSIVE split(_, _)
\* s.split(sep) for a one-character sep: always at least one piece
split(s, sep) ==
  IF \E i \in 1..Len(s) : Char(s, i) = sep
  THEN LET i == CHOOSE j \in 1..Len(s) :
                  Char(s, j) = sep /\ \A h \in 1..(j - 1) : Char(s, h) # sep
       IN <<SubSeq(s, 1, i - 1)>> \o split(SubSeq(s, i + 1, Len(s)), sep)
  ELSE <<s>>

RECURSIVE DigitsValue(_)
\* the value of a string of decimal digits
DigitsValue(s) ==
  IF s = "" THEN 0
  ELSE 10 * DigitsValue(SubSeq(s, 1, Len(s) - 1)) + (IndexIn(Char(s, Len(s)), Digits) - 1)

AllDigits(s) == s # "" /\ \A i \in 1..Len(s) : InChars(Char(s, i), Digits)

RECURSIVE NatStr(_)
\* str(n) for n >= 0
NatStr(n) == IF n < 10 THEN Char(Digits, n + 1) ELSE NatStr(n \div 10) \o Char(Digits, (n % 10) + 1)
\* str(n)
IntStr(n) == IF n < 0 THEN "-" \o NatStr(0 - n) ELSE NatStr(n)
\* a number formatted without padding
Unpadded(n) == NatStr(n)
\* f"{n:03d}" for n >= 0
Pad3(n) == IF n < 10 THEN "00" \o NatStr(n) ELSE IF n < 100 THEN "0" \o NatStr(n) ELSE NatStr(n)

\* float(s) on a str: white space is stripped, then an optional sign and decimal
\* digits (the inputs drawn here hold no fraction, exponent, inf or nan)
\* the text after an optional sign
Unsigned(body) ==
  IF body # "" /\ Char(body, 1) \in {"-", "+"} THEN SubSeq(body, 2, Len(body)) ELSE body
\* the value of the stripped text body of s, whose digits are unsigned
FloatOfDigits(s, body, unsigned) ==
  IF AllDigits(unsigned)
  THEN Ok(IF Char(body, 1) = "-" THEN 0 - DigitsValue(unsigned) ELSE DigitsValue(unsigned))
  ELSE Raise("ValueError", "could not convert string to float: '" \o s \o "'")
FloatOfBody(s, body) == FloatOfDigits(s, body, Unsigned(body))
FloatOfStr(s) == FloatOfBody(s, strip(s, WhiteSpace))

\* float(v)
Float(v) ==
  CASE IsNum(v) -> Ok(v.n)
    [] IsStr(v) -> FloatOfStr(v.s)
    [] OTHER -> Raise("TypeError", "float() argument must be a string or a real number, not '"
                                   \o TypeName(v) \o "'")

(***************************************************************************)
(* str(v) and repr(v) of a decoded JSON value.                             *)
(***************************************************************************)
RECURSIVE repr(_)
RECURSIVE JoinRepr(_)
JoinRepr(items) ==
  IF items = <<>> THEN ""
  ELSE IF Len(items) = 1 THEN repr(items[1])
  ELSE repr(items[1]) \o ", " \o JoinRepr(Tail(items))
RECURSIVE JoinPairs(_)
JoinPairs(pairs) ==
  IF pairs = <<>> THEN ""
  ELSE LET one == "'" \o pairs[1].k \o "': " \o repr(pairs[1].v)
       IN IF Len(pairs) = 1 THEN one ELSE one \o ", " \o JoinPairs(Tail(pairs))
repr(v) ==
  CASE IsNone(v) -> "None"
    [] IsNum(v) -> IntStr(v.n)
    [] IsStr(v) -> "'" \o v.s \o "'"
    [] IsList(v) -> "[" \o JoinRepr(v.items) \o "]"
    [] OTHER -> "{" \o JoinPairs(v.pairs) \o "}"
\* str(v)
str(v) == IF IsStr(v) THEN v.s ELSE repr(v)

(***************************************************************************)
(* models/mesh.py: the element records.                                    *)
(***************************************************************************)
Vertex(x, y, z) == [x |-> x, y |-> y, z |-> z]
BeamGeometry(name, start_point, end_point, embodied_carbon, structural_type, meta) ==
  [name |-> name, start_point |-> start_point, end_point |-> end_point,
   embodied_carbon |-> embodied_carbon, structural_type |-> structural_type, meta |-> meta]
SlabGeometry(name, corners, embodied_carbon, structural_type, meta) ==
  [name |-> name, corners |-> corners, embodied_carbon |-> embodied_carbon,
   structural_type |-> structural_type, meta |-> meta]
MeshGeometry(name, vertices, faces, meta, embodied_carbon, structural_type) ==
  [name |-> name, vertices |-> vertices, faces |-> faces, meta |-> meta,
   embodied_carbon |-> embodied_carbon, structural_type |-> structural_type]
MeshScene(meshes, beams, columns, slabs, metadata) ==
  [meshes |-> meshes, beams |-> beams, columns |-> columns, slabs |-> slabs,
   metadata |-> metadata]
\* MeshScene(): every field at its default
EmptyScene == MeshScene(<<>>, <<>>, <<>>, <<>>, <<>>)

(***************************************************************************)
(* utils/json_loader.py                                                    *)
(***************************************************************************)
\* an attribute access v.attr on a value that has no such attribute
NoAttribute(v, attr) ==
  Raise("AttributeError", "'" \o TypeName(v) \o "' object has no attribute '" \o attr \o "'")

\* the first outcome of a sequence of outcomes that is not ok
FirstRaise(outs) ==
  outs[CHOOSE i \in 1..Len(outs) : ~IsOk(outs[i]) /\ \A j \in 1..(i - 1) : IsOk(outs[j])]
AllOk(outs) == \A i \in 1..Len(outs) : IsOk(outs[i])

\* coords = [float(p.strip()) for p in parts]
Coords(parts) == [i \in 1..Len(parts) |-> FloatOfStr(strip(parts[i], WhiteSpace))]
\* the length test and the Vertex of parse_point_string, on the converted parts
PointOfCoords(point_str, coords) ==
  IF ~AllOk(coords) THEN FirstRaise(coords)
  ELSE IF Len(coords) # 3
  THEN Raise("MeshParseError", "Invalid point format: " \o point_str.s)
  ELSE Ok(Vertex(coords[1].v, coords[2].v, coords[3].v))

parse_point_string(point_str) ==
  IF ~IsStr(point_str) THEN NoAttribute(point_str, "strip")
  ELSE PointOfCoords(point_str, Coords(split(strip(point_str.s, "{}"), ",")))

\* try: return float(value) / except (TypeError, ValueError): return None
FloatOrNone(f) == IF IsOk(f) THEN PyNum(f.v) ELSE PyNone

_parse_carbon(value) == IF IsNone(value) THEN PyNone ELSE FloatOrNone(Float(value))

RECURSIVE ExtractItems(_, _, _)
\* the loop of _extract_system_payload over the items of a list payload
ExtractItems(items, elements, meta) ==
  IF items = <<>> THEN [elements |-> elements, meta |-> meta]
  ELSE LET item == Head(items)
       IN IF IsList(item)
          THEN ExtractItems(Tail(items), elements \o SelectSeq(item.items, IsDict), meta)
          ELSE IF IsDict(item)
          THEN ExtractItems(Tail(items), elements, Update(meta, item.pairs))
          ELSE ExtractItems(Tail(items), elements, meta)

NotElementsKey(pair) == pair.k # "elements"

_extract_system_payload(system_data) ==
  IF IsList(system_data) THEN ExtractItems(system_data.items, <<>>, <<>>)
  ELSE IF IsDict(system_data)
  THEN LET elements_payload == Get(system_data, "elements")
       IN [elements |-> IF IsList(elements_payload)
                        THEN SelectSeq(elements_payload.items, IsDict) ELSE <<>>,
           meta |-> Update(<<>>, SelectSeq(system_data.pairs, NotElementsKey))]
  ELSE [elements |-> <<>>, meta |-> <<>>]

RECURSIVE _merge_metadata(_, _)
_merge_metadata(target, source) ==
  IF source = <<>> THEN target
  ELSE LET key == Head(source).k
           value == Head(source).v
           stored == IF IsNum(value) THEN value
                     ELSE IF IsStr(value) /\ endswith(lower(key), "co2")
                     THEN _parse_carbon(value)
                     ELSE value
       IN _merge_metadata(SetItem(target, key, stored), Tail(source))

\* the meta comprehension of an element: {k: str(v) for k, v in elem.items() if k not in skip}
RECURSIVE ElementMetaPairs(_, _)
ElementMetaPairs(pairs, skip) ==
  IF pairs = <<>> THEN <<>>
  ELSE (IF Head(pairs).k \notin skip
        THEN <<KV(Head(pairs).k, str(Head(pairs).v))>> ELSE <<>>)
         \o ElementMetaPairs(Tail(pairs), skip)
ElementMeta(elem, skip) == ElementMetaPairs(elem.pairs, skip)

\* elem.get("CarbonEmission") or elem.get("CarbonEmmision")
CarbonField(elem) == PyOr(Get(elem, "CarbonEmission"), Get(elem, "CarbonEmmision"))

\* except (ValueError, TypeError) as e: raise MeshParseError(...)
WrapLinear(out, structural_type, idx) ==
  IF out.kind \in {"ValueError", "TypeError"}
  THEN Raise("MeshParseError",
             "Failed to parse " \o lower(structural_type) \o " " \o NatStr(idx) \o ": " \o out.msg)
  ELSE out

\* the try block of the loop body, once both points are converted
LinearOfPoints(elem, idx, element_prefix, structural_type, start_point, end_point) ==
  IF ~IsOk(start_point) THEN WrapLinear(start_point, structural_type, idx)
  ELSE IF ~IsOk(end_point) THEN WrapLinear(end_point, structural_type, idx)
  ELSE Ok(BeamGeometry(element_prefix \o "_" \o Pad3(idx),
                       start_point.v, end_point.v,
                       _parse_carbon(CarbonField(elem)),
                       PyStr(structural_type),
                       ElementMeta(elem, {"PointStart", "PointEnd",
                                          "CarbonEmission", "CarbonEmmision"})))

\* a loop body whose message for a missing point leaves the index out
ParseLinearElementUnnumbered(elem, idx, element_prefix, structural_type) ==
  IF IsNone(Get(elem, "PointStart")) \/ IsNone(Get(elem, "PointEnd"))
  THEN Raise("MeshParseError", "Missing start/end point")
  ELSE LinearOfPoints(elem, idx, element_prefix, structural_type,
                      parse_point_string(Get(elem, "PointStart")),
                      parse_point_string(Get(elem, "PointEnd")))
\* one pass of the loop body of _parse_linear_elements, for the element at idx
ParseLinearElement(elem, idx, element_prefix, structural_type) ==
  IF IsNone(Get(elem, "PointStart")) \/ IsNone(Get(elem, "PointEnd"))
  THEN Raise("MeshParseError", "Missing start/end point in element " \o NatStr(idx))
  ELSE LinearOfPoints(elem, idx, element_prefix, structural_type,
                      parse_point_string(Get(elem, "PointStart")),
                      parse_point_string(Get(elem, "PointEnd")))

\* the values of a sequence of ok outcomes
Values(outs) == [i \in 1..Len(outs) |-> outs[i].v]

\* what a sub-parser returns: the elements and the system metadata, or the first raise
Collected(outs, meta) ==
  IF AllOk(outs) THEN Ok([elements |-> Values(outs), meta |-> meta]) ELSE FirstRaise(outs)

\* the loop of _parse_linear_elements over the extracted payload
LinearElements(payload, element_prefix, structural_type) ==
  Collected([i \in 1..Len(payload.elements) |->
               ParseLinearElement(payload.elements[i], i - 1, element_prefix, structural_type)],
            payload.meta)

_parse_linear_elements(system_data, element_prefix, structural_type) ==
  LinearElements(_extract_system_payload(system_data), element_prefix, structural_type)

RECURSIVE DigitsOf(_)
\* ''.join(filter(str.isdigit, k))
DigitsOf(k) ==
  IF k = "" THEN ""
  ELSE (IF InChars(Char(k, 1), Digits) THEN Char(k, 1) ELSE "") \o DigitsOf(SubSeq(k, 2, Len(k)))
\* the sort key of a corner key: int(digits or 0)
CornerRank(k) == IF DigitsOf(k) = "" THEN 0 ELSE DigitsValue(DigitsOf(k))

RECURSIVE InsertByRank(_, _)
\* k put into a rank-sorted sequence, after every key of the same rank
InsertByRank(sorted, k) ==
  IF sorted = <<>> THEN <<k>>
  ELSE IF CornerRank(Head(sorted)) <= CornerRank(k)
  THEN <<Head(sorted)>> \o InsertByRank(Tail(sorted), k)
  ELSE <<k>> \o sorted
RECURSIVE SortByRankInto(_, _)
SortByRankInto(keys, sorted) ==
  IF keys = <<>> THEN sorted ELSE SortByRankInto(Tail(keys), InsertByRank(sorted, Head(keys)))
\* corner_keys.sort(key=...): a stable sort
SortCornerKeys(keys) == SortByRankInto(keys, <<>>)

IsCornerKey(k) == startswith(lower(k), "point")

\* one pass of the loop body of _parse_slab_system, for the element at idx
\* the slab of the converted corners; no except clause wraps a raise
SlabOfCorners(elem, idx, element_prefix, corner_keys, corners) ==
  IF ~AllOk(corners) THEN FirstRaise(corners)
  ELSE Ok(SlabGeometry(element_prefix \o "_" \o Pad3(idx),
                       Values(corners),
                       _parse_carbon(CarbonField(elem)),
                       PyStr("Floor"),
                       ElementMeta(elem, {corner_keys[i] : i \in 1..Len(corner_keys)}
                                           \cup {"CarbonEmission", "CarbonEmmision"})))

\* corners = [parse_point_string(elem[k]) for k in corner_keys], on the sorted keys
SlabOfKeys(elem, idx, element_prefix, corner_keys) ==
  SlabOfCorners(elem, idx, element_prefix, corner_keys,
                [i \in 1..Len(corner_keys) |-> parse_point_string(Lookup(elem, corner_keys[i]))])

ParseSlabElement(elem, idx, element_prefix) ==
  IF SelectSeq(Keys(elem), IsCornerKey) = <<>>
  THEN Raise("MeshParseError", "Slab " \o NatStr(idx) \o " missing corner points")
  ELSE SlabOfKeys(elem, idx, element_prefix, SortCornerKeys(SelectSeq(Keys(elem), IsCornerKey)))

\* the loop of _parse_slab_system over the extracted payload
SlabElements(payload, element_prefix) ==
  Collected([i \in 1..Len(payload.elements) |->
               ParseSlabElement(payload.elements[i], i - 1, element_prefix)],
            payload.meta)

_parse_slab_system(system_data, element_prefix) ==
  SlabElements(_extract_system_payload(system_data), element_prefix)

\* the three "if <System> in entry" blocks of parse_structural_frame, run on the
\* collections gathered so far; the first raise ends the parse
\* a system that is not in the entry adds nothing
NoSystem == Ok([elements |-> <<>>, meta |-> <<>>])

\* the extends and merges of the three blocks, on what the sub-parsers gave
ExtendScene(acc, b, c, s) ==
  IF ~IsOk(b) THEN b
  ELSE IF ~IsOk(c) THEN c
  ELSE IF ~IsOk(s) THEN s
  ELSE Ok(MeshScene(<<>>,
                    acc.beams \o b.v.elements,
                    acc.columns \o c.v.elements,
                    acc.slabs \o s.v.elements,
                    _merge_metadata(
                      _merge_metadata(
                        _merge_metadata(acc.metadata, b.v.meta), c.v.meta), s.v.meta)))

ParseSystems(entry, acc) ==
  ExtendScene(acc,
              IF HasKey(entry, "BeamSystem")
              THEN _parse_linear_elements(Lookup(entry, "BeamSystem"), "Beam", "Beam")
              ELSE NoSystem,
              IF HasKey(entry, "ColumnSystem")
              THEN _parse_linear_elements(Lookup(entry, "ColumnSystem"), "Column", "Column")
              ELSE NoSystem,
              IF HasKey(entry, "SlabSystem")
              THEN _parse_slab_system(Lookup(entry, "SlabSystem"), "Floor")
              ELSE NoSystem)

\* if "TotalCO2" in entry: scene.metadata["totalCO2"] = _parse_carbon(entry.get("TotalCO2"))
EntryTotal(entry, scene) ==
  IF HasKey(entry, "TotalCO2")
  THEN [scene EXCEPT !.metadata = SetItem(@, "totalCO2", _parse_carbon(Get(entry, "TotalCO2")))]
  ELSE scene

RECURSIVE ParseEntries(_, _)
\* the rest of the loop after the systems of one entry are parsed
AfterEntry(entries, parsed) ==
  IF ~IsOk(parsed) THEN parsed
  ELSE ParseEntries(Tail(entries), EntryTotal(Head(entries), parsed.v))

\* the loop of parse_structural_frame over the entries of a list frame
ParseEntries(entries, acc) ==
  IF entries = <<>> THEN Ok(acc)
  ELSE IF ~IsDict(Head(entries)) THEN ParseEntries(Tail(entries), acc)
  ELSE AfterEntry(entries, ParseSystems(Head(entries), acc))

\* for x in v: the items a for loop visits
Iterate(v) ==
  CASE IsList(v) -> Ok(v.items)
    [] IsStr(v) -> Ok([i \in 1..Len(v.s) |-> PyStr(Char(v.s, i))])
    [] IsDict(v) -> Ok([i \in 1..Len(v.pairs) |-> PyStr(v.pairs[i].k)])
    [] OTHER -> Raise("TypeError", "'" \o TypeName(v) \o "' object is not iterable")

\* the body of parse_structural_frame on structural_frame = data.get("StructuralFrame")
ParseFrame(structural_frame) ==
  IF IsNone(structural_frame) THEN Ok(EmptyScene)
  ELSE IF IsDict(structural_frame) THEN ParseSystems(structural_frame, EmptyScene)
  ELSE IF ~IsOk(Iterate(structural_frame)) THEN Iterate(structural_frame)
  ELSE ParseEntries(Iterate(structural_frame).v, EmptyScene)

parse_structural_frame(data) ==
  IF ~IsDict(data) THEN NoAttribute(data, "get")
  ELSE ParseFrame(Get(data, "StructuralFrame"))

\* len(v)
PyLen(v) ==
  CASE IsList(v) -> Ok(Len(v.items))
    [] IsStr(v) -> Ok(Len(v.s))
    [] IsDict(v) -> Ok(Len(v.pairs))
    [] OTHER -> Raise("TypeError", "object of type '" \o TypeName(v) \o "' has no len()")

\* hash(v), as a dict key needs it
Hashable(v) == ~IsList(v) /\ ~IsDict(v)
Unhashable(v) == Raise("TypeError", "unhashable type: '" \o TypeName(v) \o "'")

RECURSIVE NameChildren(_, _)
\* the loop of parse_scene over object.children, filling uuid_name_map
NameChildren(children, uuid_name_map) ==
  IF children = <<>> THEN Ok(uuid_name_map)
  ELSE LET child == Head(children)
       IN IF ~IsDict(child) THEN NoAttribute(child, "get")
          ELSE IF Get(child, "type") # PyStr("Mesh")
          THEN NameChildren(Tail(children), uuid_name_map)
          ELSE IF ~Hashable(Get(child, "geometry")) THEN Unhashable(Get(child, "geometry"))
          ELSE NameChildren(Tail(children),
                            SetItem(uuid_name_map, Get(child, "geometry"),
                                    GetOr(child, "name", PyStr("mesh"))))

\* the uuid -> name map of parse_scene
ChildrenNames(children) ==
  IF ~IsOk(children) THEN children ELSE NameChildren(children.v, <<>>)
ObjectNames(object) ==
  IF ~IsDict(object) THEN NoAttribute(object, "get")
  ELSE ChildrenNames(Iterate(GetOr(object, "children", PyList(<<>>))))
UuidNameMap(data) == ObjectNames(GetOr(data, "object", PyDict(<<>>)))

\* a parser without the length test on the vertex array
AnyVertexArrayOk(n) == TRUE
\* len(raw_vertices) % 3 != 0 is refused
VertexArrayOk(n) == n % 3 = 0

\* the list comprehension that takes consecutive triples of a list of numbers
ParseVertices(raw_vertices) ==
  LET n == Len(raw_vertices)
      count == (n + 2) \div 3
  IN IF 3 * count > n THEN Raise("IndexError", "list index out of range")
     ELSE Ok([i \in 1..count |-> Vertex(raw_vertices[3 * i - 2].n,
                                        raw_vertices[3 * i - 1].n,
                                        raw_vertices[3 * i].n)])

\* len(raw_faces) % 4 != 0 is refused
FaceArrayOk(n) == n % 4 = 0
\* a parser that takes a face whatever its flag
AnyFaceFlagOk(flag) == TRUE
\* flag != 0 is refused
FaceFlagOk(flag) == flag = 0

\* one pass of the face loop of parse_scene, for the quadruple starting at i (1-based)
ParseFace(raw_faces, i, name) ==
  LET n == Len(raw_faces)
      got == IF n - i >= 3 THEN 3 ELSE n - i
  IN IF got # 3
     THEN Raise("ValueError", "not enough values to unpack (expected 3, got " \o NatStr(got) \o ")")
     ELSE IF ~FaceFlagOk(raw_faces[i].n)
     THEN Raise("MeshParseError",
                "Unsupported face flag " \o IntStr(raw_faces[i].n) \o " in " \o name)
     ELSE Ok(<<raw_faces[i + 1].n, raw_faces[i + 2].n, raw_faces[i + 3].n>>)

\* the faces of one block
\* the values of the passes of a loop, or its first raise
Gathered(outs) == IF AllOk(outs) THEN Ok(Values(outs)) ELSE FirstRaise(outs)

\* the length test and the face loop, on n = len(raw_faces)
FacesOfLength(raw_faces, name, n) ==
  IF ~IsOk(n) THEN n
  ELSE IF ~FaceArrayOk(n.v)
  THEN Raise("MeshParseError", "Faces array length not multiple of 4 for " \o name)
  ELSE Gathered([q \in 1..((n.v + 3) \div 4) |-> ParseFace(raw_faces.items, 4 * q - 3, name)])

ParseFaces(raw_faces, name) ==
  IF ~Truthy(raw_faces) THEN Ok(<<>>) ELSE FacesOfLength(raw_faces, name, PyLen(raw_faces))

\* float(carbon) if carbon is not None else None, None on TypeError or ValueError
MeshCarbon(carbon) == IF IsNone(carbon) THEN PyNone ELSE FloatOrNone(Float(carbon))

\* str(structural_type) if it is not None else None
MeshStructuralType(structural_type) ==
  IF IsNone(structural_type) THEN PyNone ELSE PyStr(str(structural_type))

\* meshes.append(MeshGeometry(...)), on the parsed vertices and faces
MeshOfArrays(uuid, name, dataset, vertices, faces) ==
  IF ~IsOk(vertices) THEN vertices
  ELSE IF ~IsOk(faces) THEN faces
  ELSE Ok(MeshGeometry(name, vertices.v, faces.v,
                       <<KV("uuid", PyOr(uuid, PyStr("")).s),
                         KV("vertex_count", NatStr(Len(vertices.v)))>>,
                       MeshCarbon(Get(dataset, "embodiedCarbon")),
                       MeshStructuralType(Get(dataset, "structural_type"))))

\* the vertex length test and what follows it, on n = len(raw_vertices)
MeshOfData(uuid, name, dataset, raw_vertices, raw_faces, n) ==
  IF ~IsOk(n) THEN n
  ELSE IF ~VertexArrayOk(n.v)
  THEN Raise("MeshParseError", "Vertex array length not multiple of 3 for " \o name)
  ELSE MeshOfArrays(uuid, name, dataset,
                    ParseVertices(raw_vertices.items), ParseFaces(raw_faces, name))

\* the pass of the geometry loop on uuid = g.get("uuid") and dataset = g.get("data") or {}
BlockOfData(uuid, dataset, count, uuid_name_map) ==
  IF ~Hashable(uuid) THEN Unhashable(uuid)
  ELSE IF ~IsDict(dataset) THEN NoAttribute(dataset, "get")
  ELSE MeshOfData(uuid,
                  GetOr(PyDict(uuid_name_map), uuid,
                        PyOr(uuid, PyStr("mesh_" \o NatStr(count)))).s,
                  dataset,
                  GetOr(dataset, "vertices", PyList(<<>>)),
                  GetOr(dataset, "faces", PyList(<<>>)),
                  PyLen(GetOr(dataset, "vertices", PyList(<<>>))))

\* one pass of the geometry loop of parse_scene: g is the block, count is len(meshes)
ParseBlock(g, count, uuid_name_map) ==
  IF ~IsDict(g) THEN NoAttribute(g, "get")
  ELSE BlockOfData(Get(g, "uuid"), PyOr(Get(g, "data"), PyDict(<<>>)), count, uuid_name_map)

\* return MeshScene(meshes=meshes), or the raise that ended the loop
SceneOfMeshes(meshes) ==
  IF IsOk(meshes) THEN Ok(MeshScene(meshes.v, <<>>, <<>>, <<>>, <<>>)) ELSE meshes

\* the geometry loop of parse_scene
ParseGeometries(uuid_name_map, geometries) ==
  IF ~IsOk(uuid_name_map) THEN uuid_name_map
  ELSE IF ~IsOk(geometries) THEN geometries
  ELSE SceneOfMeshes(Gathered([i \in 1..Len(geometries.v) |->
                                 ParseBlock(geometries.v[i], i - 1, uuid_name_map.v)]))

parse_scene(data) ==
  IF ~IsDict(data) THEN NoAttribute(data, "get")
  ELSE ParseGeometries(UuidNameMap(data), Iterate(GetOr(data, "geometries", PyList(<<>>))))

(***************************************************************************)
(* A file is missing, holds text that is no JSON, or holds a JSON value.   *)
(***************************************************************************)
MissingFile == [t |-> "missing"]
InvalidFile == [t |-> "invalid"]
JsonFile(data) == [t |-> "json", data |-> data]

load_json(path) ==
  CASE path.t = "missing" -> Raise("MeshParseError", "File not found")
    [] path.t = "invalid" -> Raise("MeshParseError", "Invalid JSON")
    [] OTHER -> Ok(path.data)

\* "StructuralFrame" in data
InData(data) ==
  CASE IsDict(data) -> Ok(HasKey(data, "StructuralFrame"))
    [] IsList(data) -> Ok(\E i \in 1..Len(data.items) : data.items[i] = PyStr("StructuralFrame"))
    [] IsStr(data) -> Ok(Contains(data.s, "StructuralFrame"))
    [] OTHER -> Raise("TypeError", "argument of type '" \o TypeName(data) \o "' is not iterable")

\* a loader that looks for geometry blocks before it looks for a frame
DispatchOnGeometries(data, new_format) ==
  IF ~IsOk(new_format) THEN new_format
  ELSE IF new_format.v /\ ~(IsDict(data) /\ HasKey(data, "geometries"))
    THEN parse_structural_frame(data)
  ELSE parse_scene(data)
\* if "StructuralFrame" in data: ... else: ...
Dispatch(data, new_format) ==
  IF ~IsOk(new_format) THEN new_format
  ELSE IF new_format.v THEN parse_structural_frame(data)
  ELSE parse_scene(data)

\* the body of load_scene on what load_json gave
SceneOfJson(data) == IF ~IsOk(data) THEN data ELSE Dispatch(data.v, InData(data.v))

load_scene(path) == SceneOfJson(load_json(path))

(***************************************************************************)
(* models/mesh.py: derived quantities.  math.sqrt is exact on the inputs   *)
(* drawn here: every beam has an integral length and every slab triangle   *)
(* an integral area.                                                       *)
(***************************************************************************)
Sqrt(n) == CHOOSE k \in 0..n : k * k <= n /\ (k + 1) * (k + 1) > n
Min(S) == CHOOSE x \in S : \A y \in S : x <= y
Max(S) == CHOOSE x \in S : \A y \in S : x >= y
Range(f) == {f[i] : i \in DOMAIN f}

\* BeamGeometry.length
length(b) ==
  LET dx == b.end_point.x - b.start_point.x
      dy == b.end_point.y - b.start_point.y
      dz == b.end_point.z - b.start_point.z
  IN Sqrt(dx * dx + dy * dy + dz * dz)

_triangle_area(a, b, c) ==
  LET ab == <<b.x - a.x, b.y - a.y, b.z - a.z>>
      ac == <<c.x - a.x, c.y - a.y, c.z - a.z>>
      cross_x == ab[2] * ac[3] - ab[3] * ac[2]
      cross_y == ab[3] * ac[1] - ab[1] * ac[3]
      cross_z == ab[1] * ac[2] - ab[2] * ac[1]
  IN Sqrt(cross_x * cross_x + cross_y * cross_y + cross_z * cross_z) \div 2

RECURSIVE FanArea(_, _)
\* the fan loop of SlabGeometry.area from triangle i on
FanArea(corners, i) ==
  IF i > Len(corners) - 2 THEN 0
  ELSE _triangle_area(corners[1], corners[i + 1], corners[i + 2]) + FanArea(corners, i + 1)
\* SlabGeometry.area
area(slab) == IF Len(slab.corners) < 3 THEN 0 ELSE FanArea(slab.corners, 1)

\* MeshGeometry.bounds and SlabGeometry.bounds, on the point list
bounds(points) ==
  IF points = <<>> THEN <<<<0, 0, 0>>, <<0, 0, 0>>>>
  ELSE LET xs == {points[i].x : i \in 1..Len(points)}
           ys == {points[i].y : i \in 1..Len(points)}
           zs == {points[i].z : i \in 1..Len(points)}
       IN <<<<Min(xs), Min(ys), Min(zs)>>, <<Max(xs), Max(ys), Max(zs)>>>>

\* MeshGeometry.bounding_box_volume
bounding_box_volume(m) ==
  LET b == bounds(m.vertices)
      v == (b[2][1] - b[1][1]) * (b[2][2] - b[1][2]) * (b[2][3] - b[1][3])
  IN IF v > 0 THEN v ELSE 0

RECURSIVE SumSeq(_)
SumSeq(ns) == IF ns = <<>> THEN 0 ELSE Head(ns) + SumSeq(Tail(ns))

\* MeshScene.total_vertices
total_vertices(scene) ==
  SumSeq([i \in 1..Len(scene.meshes) |-> Len(scene.meshes[i].vertices)])
    + Len(scene.beams) * 2 + Len(scene.columns) * 2
    + SumSeq([i \in 1..Len(scene.slabs) |-> Len(scene.slabs[i].corners)])

\* a face count that leaves the meshes out
SlabFaces(scene) == Len(scene.slabs) * 2
\* MeshScene.total_faces
total_faces(scene) ==
  SumSeq([i \in 1..Len(scene.meshes) |-> Len(scene.meshes[i].faces)]) + Len(scene.slabs) * 2

RECURSIVE Flatten(_)
Flatten(seqs) == IF seqs = <<>> THEN <<>> ELSE Head(seqs) \o Flatten(Tail(seqs))

\* a box around the meshes and the line elements, without the slabs
BoundsWithoutSlabs(scene) ==
  bounds(Flatten([i \in 1..Len(scene.meshes) |-> scene.meshes[i].vertices])
           \o Flatten([i \in 1..Len(scene.beams) |->
                         <<scene.beams[i].start_point, scene.beams[i].end_point>>])
           \o Flatten([i \in 1..Len(scene.columns) |->
                         <<scene.columns[i].start_point, scene.columns[i].end_point>>]))
\* MeshScene.aggregate_bounds
aggregate_bounds(scene) ==
  LET EndPoints(bs) == Flatten([i \in 1..Len(bs) |-> <<bs[i].start_point, bs[i].end_point>>])
      points == Flatten([i \in 1..Len(scene.meshes) |-> scene.meshes[i].vertices])
                  \o EndPoints(scene.beams) \o EndPoints(scene.columns)
                  \o Flatten([i \in 1..Len(scene.slabs) |-> scene.slabs[i].corners])
  IN bounds(points)

\* the row summary() appends for a mesh
MeshRow(m) ==
  LET b == bounds(m.vertices)
  IN [name |-> m.name, vertices |-> Len(m.vertices), faces |-> Len(m.faces),
      bbox_volume |-> bounding_box_volume(m), min_z |-> b[1][3], max_z |-> b[2][3],
      embodied_carbon |-> m.embodied_carbon, structural_type |-> m.structural_type]

\* the row summary() appends for a beam or a column
LinearRow(b) ==
  [name |-> b.name, vertices |-> 2, faces |-> 0, bbox_volume |-> 0, length |-> length(b),
   min_z |-> Min({b.start_point.z, b.end_point.z}),
   max_z |-> Max({b.start_point.z, b.end_point.z}),
   embodied_carbon |-> b.embodied_carbon, structural_type |-> b.structural_type]

\* the row summary() appends for a slab
SlabRow(slab) ==
  LET b == bounds(slab.corners)
  IN [name |-> slab.name, vertices |-> Len(slab.corners), faces |-> 2,
      bbox_volume |-> IF b[2][3] > b[1][3]
                      THEN (b[2][1] - b[1][1]) * (b[2][2] - b[1][2]) * (b[2][3] - b[1][3])
                      ELSE 0,
      area |-> area(slab), min_z |-> b[1][3], max_z |-> b[2][3],
      embodied_carbon |-> slab.embodied_carbon, structural_type |-> slab.structural_type]

\* a summary that leaves out the elements without a carbon value
CarbonKnown(r) == ~IsNone(r.embodied_carbon)
SummaryOfKnownCarbon(scene) ==
  SelectSeq([i \in 1..Len(scene.meshes) |-> MeshRow(scene.meshes[i])]
              \o [i \in 1..Len(scene.beams) |-> LinearRow(scene.beams[i])]
              \o [i \in 1..Len(scene.columns) |-> LinearRow(scene.columns[i])]
              \o [i \in 1..Len(scene.slabs) |-> SlabRow(scene.slabs[i])],
            CarbonKnown)
\* MeshScene.summary
summary(scene) ==
  [i \in 1..Len(scene.meshes) |-> MeshRow(scene.meshes[i])]
    \o [i \in 1..Len(scene.beams) |-> LinearRow(scene.beams[i])]
    \o [i \in 1..Len(scene.columns) |-> LinearRow(scene.columns[i])]
    \o [i \in 1..Len(scene.slabs) |-> SlabRow(scene.slabs[i])]

(***************************************************************************)
(* components/charts.py and the classifier of app.py.  A figure is modelled*)
(* by the data the method computes for it; the styling of the traces is    *)
(* left out.  A quotient a / b is kept as the pair [num |-> a, den |-> b]. *)
(***************************************************************************)
Frac(a, b) == [num |-> a, den |-> b]
\* go.Figure(): the figure returned when there is nothing to show
EmptyFigure == [empty |-> TRUE]

\* r.get(key) on a summary row
RowGet(r, key) == IF key \in DOMAIN r THEN r[key] ELSE PyNone
\* any(k in name for k in keywords)
AnyIn(name, keywords) == \E k \in keywords : Contains(name, k)

\* a pie classifier that looks at the name before the structural type
PieKeywordsFirst(r) ==
  IF AnyIn(lower(r.name), {"slab", "floor", "plate"}) THEN "Floor"
  ELSE IF AnyIn(lower(r.name), {"beam", "girder"}) THEN "Beam"
  ELSE IF AnyIn(lower(r.name), {"column", "pillar"}) THEN "Column"
  ELSE IF Truthy(r.structural_type) THEN r.structural_type.s
  ELSE "Other"
\* carbon_pie.default_classifier
PieDefaultClassifier(r) ==
  IF Truthy(r.structural_type) THEN r.structural_type.s
  ELSE LET name == lower(r.name)
       IN IF AnyIn(name, {"slab", "floor", "plate"}) THEN "Floor"
          ELSE IF AnyIn(name, {"beam", "girder"}) THEN "Beam"
          ELSE IF AnyIn(name, {"column", "pillar"}) THEN "Column"
          ELSE "Other"

\* carbon_aggregation_summary.default_classifier
AggregationDefaultClassifier(r) ==
  IF Truthy(r.structural_type) THEN r.structural_type.s
  ELSE LET name == lower(r.name)
       IN IF AnyIn(name, {"slab", "floor", "plate"}) THEN "Floor"
          ELSE IF AnyIn(name, {"beam", "girder"}) THEN "Beam"
          ELSE IF AnyIn(name, {"column", "pillar", "post"}) THEN "Column"
          ELSE "Other"

\* carbon_intensity_analysis.default_classifier
IntensityDefaultClassifier(r) ==
  IF Truthy(r.structural_type) THEN r.structural_type.s
  ELSE LET name == lower(r.name)
       IN IF AnyIn(name, {"beam", "girder"}) THEN "Beam"
          ELSE IF AnyIn(name, {"column", "pillar"}) THEN "Column"
          ELSE "Other"

\* carbon_kpi_dashboard.default_classifier
KpiDefaultClassifier(r) ==
  IF Truthy(r.structural_type) THEN r.structural_type.s
  ELSE LET name == lower(r.name)
       IN IF AnyIn(name, {"beam", "girder"}) THEN "Beam"
          ELSE IF AnyIn(name, {"slab", "floor", "plate"}) THEN "Floor"
          ELSE IF AnyIn(name, {"column", "pillar"}) THEN "Column"
          ELSE "Other"

\* the default_classifier each method defines
DefaultClassifier(op, r) ==
  CASE op = "carbon_pie" -> PieDefaultClassifier(r)
    [] op = "carbon_aggregation_summary" -> AggregationDefaultClassifier(r)
    [] op = "carbon_intensity_analysis" -> IntensityDefaultClassifier(r)
    [] OTHER -> KpiDefaultClassifier(r)

\* a classifier that tries the built-in keywords before the mapping
AppKeywordsFirst(mapping, row) ==
  IF Truthy(row.structural_type) THEN row.structural_type.s
  ELSE IF AnyIn(lower(row.name), {"slab", "floor", "plate"}) THEN "Floor"
  ELSE IF AnyIn(lower(row.name), {"beam", "girder"}) THEN "Beam"
  ELSE IF AnyIn(lower(row.name), {"column", "pillar", "post"}) THEN "Column"
  ELSE IF \E i \in 1..Len(mapping) : Contains(lower(row.name), mapping[i].k)
  THEN mapping[Min({i \in 1..Len(mapping) : Contains(lower(row.name), mapping[i].k)})].v
  ELSE "Other"
\* app.py, get_classifier.classifier over the mapping of name fragments to groups
AppClassifier(mapping, row) ==
  IF Truthy(row.structural_type) THEN row.structural_type.s
  ELSE LET name_l == lower(row.name)
           hits == {i \in 1..Len(mapping) : Contains(name_l, mapping[i].k)}
       IN IF hits # {} THEN mapping[Min(hits)].v
          ELSE IF AnyIn(name_l, {"slab", "floor", "plate"}) THEN "Floor"
          ELSE IF AnyIn(name_l, {"beam", "girder"}) THEN "Beam"
          ELSE IF AnyIn(name_l, {"column", "pillar", "post"}) THEN "Column"
          ELSE "Other"

\* The classifier argument: None, the application's classifier with its mapping, or
\* a caller's own function (here: the row's name, and one label for every row).
NoClassifier == [t |-> "None"]
AppClassifierOf(mapping) == [t |-> "app", mapping |-> mapping]
NameClassifier == [t |-> "name"]
ConstClassifier == [t |-> "const"]

\* (classifier or default_classifier)(r)
Classify(op, classifier, r) ==
  CASE classifier.t = "None" -> DefaultClassifier(op, r)
    [] classifier.t = "app" -> AppClassifier(classifier.mapping, r)
    [] classifier.t = "name" -> r.name
    [] OTHER -> "All"

HasCarbon(r) == ~IsNone(RowGet(r, "embodied_carbon"))
\* an aggregation over every row, the ones without a carbon value included
EveryRow(rows) == rows
\* rows = [r for r in self._summary if r.get("embodied_carbon") is not None]
CarbonRows(rows) == SelectSeq(rows, HasCarbon)

\* r["embodied_carbon"] or 0.0
CarbonOrZero(r) == IF Truthy(r.embodied_carbon) THEN r.embodied_carbon.n ELSE 0

\* the grouping step: the row r joins the bucket of its label, a new label opens a
\* bucket at the end (dict insertion order)
AddToGroup(grouped, label, r) ==
  IF \E i \in 1..Len(grouped) : grouped[i].label = label
  THEN [i \in 1..Len(grouped) |->
          IF grouped[i].label = label
          THEN [grouped[i] EXCEPT !.total_carbon = @ + CarbonOrZero(r),
                                  !.count = @ + 1,
                                  !.elements = Append(@, r)]
          ELSE grouped[i]]
  ELSE Append(grouped, [label |-> label, total_carbon |-> CarbonOrZero(r), count |-> 1,
                        elements |-> <<r>>])

RECURSIVE GroupRows(_, _, _, _)
\* for r in rows: group = classifier(r); ...
GroupRows(op, classifier, rows, grouped) ==
  IF rows = <<>> THEN grouped
  ELSE GroupRows(op, classifier, Tail(rows),
                 AddToGroup(grouped, Classify(op, classifier, Head(rows)), Head(rows)))

RECURSIVE InsertBeforeEquals(_, _)
\* a sort that puts a bucket before the buckets of the same total
InsertBeforeEquals(sorted, g) ==
  IF sorted = <<>> THEN <<g>>
  ELSE IF Head(sorted).total_carbon > g.total_carbon
  THEN <<Head(sorted)>> \o InsertBeforeEquals(Tail(sorted), g)
  ELSE <<g>> \o sorted
RECURSIVE InsertDescending(_, _)
\* a bucket put into a sequence sorted by descending total, after its equals
InsertDescending(sorted, g) ==
  IF sorted = <<>> THEN <<g>>
  ELSE IF Head(sorted).total_carbon >= g.total_carbon
  THEN <<Head(sorted)>> \o InsertDescending(Tail(sorted), g)
  ELSE <<g>> \o sorted
RECURSIVE SortDescendingInto(_, _)
SortDescendingInto(groups, sorted) ==
  IF groups = <<>> THEN sorted
  ELSE SortDescendingInto(Tail(groups), InsertDescending(sorted, Head(groups)))
\* sorted(grouped.items(), key=total_carbon, reverse=True): stable
SortDescending(grouped) == SortDescendingInto(grouped, <<>>)

\* labels, values and counts of the pie, from the sorted buckets
PieFigure(ordered) ==
  Ok([empty |-> FALSE,
      groups |-> [i \in 1..Len(ordered) |->
                    [label |-> ordered[i].label,
                     total_carbon |-> ordered[i].total_carbon,
                     count |-> ordered[i].count]]])

PieOfRows(rows, classifier) ==
  IF rows = <<>> THEN Ok(EmptyFigure)
  ELSE PieFigure(SortDescending(GroupRows("carbon_pie", classifier, rows, <<>>)))

\* ChartsBuilder.carbon_pie
carbon_pie(rows_all, classifier) == PieOfRows(CarbonRows(rows_all), classifier)

HasLength(r) == "length" \in DOMAIN r
RowLength(r) == r.length

\* if 'length' in r: grouped[group]['lengths'].append(r['length'])
Lengths(with) == [j \in 1..Len(with) |-> RowLength(with[j])]

\* the four panels of the summary, from the buckets in insertion order
AggregationFigure(grouped) ==
  Ok([empty |-> FALSE,
      groups |-> [i \in 1..Len(grouped) |->
                    [label |-> grouped[i].label,
                     total_carbon |-> grouped[i].total_carbon,
                     count |-> grouped[i].count,
                     avg_carbon |-> Frac(grouped[i].total_carbon, grouped[i].count),
                     lengths |-> Lengths(SelectSeq(grouped[i].elements, HasLength))]]])

AggregationOfRows(rows, classifier) ==
  IF rows = <<>> THEN Ok(EmptyFigure)
  ELSE AggregationFigure(GroupRows("carbon_aggregation_summary", classifier, rows, <<>>))

\* ChartsBuilder.carbon_aggregation_summary
carbon_aggregation_summary(rows_all, classifier) ==
  AggregationOfRows(CarbonRows(rows_all), classifier)

\* r.get("embodied_carbon") is not None and (r.get("length") or r.get("area"))
HasIntensityBasis(r) ==
  HasCarbon(r) /\ Truthy(PyOr(IF "length" \in DOMAIN r THEN PyNum(r.length) ELSE PyNone,
                              IF "area" \in DOMAIN r THEN PyNum(r.area) ELSE PyNone))

\* an intensity loop that divides by the length only
IntensityByLength(r) ==
  [dimension |-> IF "length" \in DOMAIN r THEN PyNum(r.length) ELSE PyNone,
   dimension_type |-> "Length"]
\* the divisor the intensity loop settles on for a row: the length, or the area when
\* the length is None or 0
IntensityDimension(r) ==
  LET dimension == IF "length" \in DOMAIN r THEN PyNum(r.length) ELSE PyNone
  IN IF IsNone(dimension) \/ dimension = PyNum(0)
     THEN [dimension |-> IF "area" \in DOMAIN r THEN PyNum(r.area) ELSE PyNone,
           dimension_type |-> "Area"]
     ELSE [dimension |-> dimension, dimension_type |-> "Length"]

\* if dimension and dimension > 0
DimensionUsable(d) == Truthy(d) /\ d.n > 0

RECURSIVE IntensityData(_, _)
\* the loop of carbon_intensity_analysis that fills intensity_data
IntensityData(classifier, rows) ==
  IF rows = <<>> THEN <<>>
  ELSE LET r == Head(rows)
           group == Classify("carbon_intensity_analysis", classifier, r)
           d == IntensityDimension(r)
       IN (IF DimensionUsable(d.dimension)
           THEN <<[type |-> group, name |-> r.name, carbon |-> r.embodied_carbon.n,
                   dimension |-> d.dimension.n, dimension_type |-> d.dimension_type,
                   intensity |-> Frac(r.embodied_carbon.n, d.dimension.n)]>>
           ELSE <<>>) \o IntensityData(classifier, Tail(rows))

IntensityFigure(intensity_data) ==
  IF intensity_data = <<>> THEN Ok(EmptyFigure)
  ELSE Ok([empty |-> FALSE, intensity_data |-> intensity_data])

IntensityOfRows(rows, classifier) ==
  IF rows = <<>> THEN Ok(EmptyFigure) ELSE IntensityFigure(IntensityData(classifier, rows))

\* ChartsBuilder.carbon_intensity_analysis
carbon_intensity_analysis(rows_all, classifier) ==
  IntensityOfRows(SelectSeq(rows_all, HasIntensityBasis), classifier)

\* the story height of carbon_by_floor_level, 8.67, in hundredths
StoryHeightHundredths == 867
\* round(z_level / 8.67): no integral z_level is a tie
FloorNum(z_level) == (200 * z_level + StoryHeightHundredths) \div (2 * StoryHeightHundredths)

RECURSIVE SortedInts(_)
\* sorted(keys)
SortedInts(S) == IF S = {} THEN <<>> ELSE <<Min(S)>> \o SortedInts(S \ {Min(S)})

RECURSIVE FloorDataByMinZ(_, _)
\* a binning by the lowest point of an element
FloorDataByMinZ(rows, floor_data) ==
  IF rows = <<>> THEN floor_data
  ELSE FloorDataByMinZ(Tail(rows),
                       AddToGroup(floor_data, FloorNum(Head(rows).min_z), Head(rows)))
RECURSIVE FloorData(_, _)
\* the loop of carbon_by_floor_level that fills floor_data, keyed by floor_num
FloorData(rows, floor_data) ==
  IF rows = <<>> THEN floor_data
  ELSE LET r == Head(rows)
           floor_num == FloorNum(IF "max_z" \in DOMAIN r THEN r.max_z ELSE 0)
       IN FloorData(Tail(rows), AddToGroup(floor_data, floor_num, r))

\* floor_data[f]
FloorAt(floor_data, f) ==
  floor_data[CHOOSE i \in 1..Len(floor_data) : floor_data[i].label = f]

\* the bars of the figure, for floors = sorted(floor_data.keys())
FloorFigure(floor_data, floors) ==
  Ok([empty |-> FALSE,
      floors |-> [i \in 1..Len(floors) |->
                    [floor |-> floors[i],
                     total_carbon |-> FloorAt(floor_data, floors[i]).total_carbon,
                     count |-> FloorAt(floor_data, floors[i]).count]]])

FloorsOfData(floor_data) ==
  FloorFigure(floor_data, SortedInts({floor_data[i].label : i \in 1..Len(floor_data)}))

FloorsOfRows(rows) ==
  IF rows = <<>> THEN Ok(EmptyFigure) ELSE FloorsOfData(FloorData(rows, <<>>))

\* ChartsBuilder.carbon_by_floor_level
carbon_by_floor_level(rows_all) == FloorsOfRows(CarbonRows(rows_all))

\* [r["embodied_carbon"] for r in rows]
Carbons(rows) == [i \in 1..Len(rows) |-> rows[i].embodied_carbon.n]

\* one entry of stats_by_type, for a group and its values
KpiStats(group, values, total_carbon) ==
  [label |-> group,
   count |-> Len(values),
   total_carbon |-> SumSeq(values),
   avg_carbon |-> Frac(SumSeq(values), Len(values)),
   percent |-> Frac(SumSeq(values) * 100, total_carbon)]

\* the totals and the table; sum(values)/total_carbon divides by total_carbon
KpiFigure(rows, carbons, total_carbon, grouped_stats) ==
  IF total_carbon = 0 THEN Raise("ZeroDivisionError", "float division by zero")
  ELSE Ok([empty |-> FALSE,
           total_carbon |-> total_carbon,
           avg_carbon |-> Frac(total_carbon, Len(rows)),
           max_carbon |-> Max(Range(carbons)),
           min_carbon |-> Min(Range(carbons)),
           groups |-> [i \in 1..Len(grouped_stats) |->
                         KpiStats(grouped_stats[i].label, Carbons(grouped_stats[i].elements),
                                  total_carbon)]])

\* a dashboard without the early return for an empty row list
KpiOfAnyRows(rows, classifier) ==
  KpiFigure(rows, Carbons(rows), SumSeq(Carbons(rows)),
            GroupRows("carbon_kpi_dashboard", classifier, rows, <<>>))
\* if not rows: return go.Figure()
KpiOfRows(rows, classifier) ==
  IF rows = <<>> THEN Ok(EmptyFigure)
  ELSE KpiFigure(rows, Carbons(rows), SumSeq(Carbons(rows)),
                 GroupRows("carbon_kpi_dashboard", classifier, rows, <<>>))

\* ChartsBuilder.carbon_kpi_dashboard
carbon_kpi_dashboard(rows_all, classifier) == KpiOfRows(CarbonRows(rows_all), classifier)

(***************************************************************************)
(* models/mesh.py: MeshScene.from_dict, the loader app.load_scene_safe     *)
(* uses for a payload that is already a dict.                              *)
(***************************************************************************)
RECURSIVE RemoveSpaces(_)
\* s.replace(" ", "")
RemoveSpaces(s) ==
  IF s = "" THEN ""
  ELSE (IF Char(s, 1) = " " THEN "" ELSE Char(s, 1)) \o RemoveSpaces(SubSeq(s, 2, Len(s)))

\* [float(x) for x in coords.split(",")]
FloatsOf(parts) == [i \in 1..Len(parts) |-> FloatOfStr(parts[i])]
\* Vertex(*coords): three positional arguments, or a TypeError
VertexOfCoords(coords) ==
  IF ~AllOk(coords) THEN FirstRaise(coords)
  ELSE IF Len(coords) # 3
       THEN Raise("TypeError", "Vertex.__init__() takes 3 positional arguments")
       ELSE Ok(Vertex(coords[1].v, coords[2].v, coords[3].v))
\* Vertex(*parse_point(point_str)) of from_dict
parse_point(point_str) ==
  VertexOfCoords(FloatsOf(split(RemoveSpaces(strip(str(point_str), "{}")), ",")))

\* a column record process_structural_elements keeps
IsColumnRecord(col) == IsDict(col) /\ HasKey(col, "PointStart") /\ HasKey(col, "PointEnd")
\* a slab record process_structural_elements keeps
IsSlabRecord(slab) == IsDict(slab) /\ \A i \in 1..4 : HasKey(slab, "Point" \o NatStr(i))
\* any(k.startswith("Point") for k in item.keys())
HasPointKey(item) == \E i \in 1..Len(item.pairs) : startswith(item.pairs[i].k, "Point")

RECURSIVE ProcessItems(_, _)
\* the loops of process_structural_elements over a list system_data
ProcessItems(items, element_type) ==
  IF items = <<>> THEN <<>>
  ELSE (CASE element_type = "Column" /\ IsList(Head(items)) ->
               SelectSeq(Head(items).items, IsColumnRecord)
          [] element_type = "Slab" /\ IsList(Head(items)) ->
               SelectSeq(Head(items).items, IsSlabRecord)
          [] element_type = "Beam" /\ IsList(Head(items)) -> Head(items).items
          [] element_type = "Beam" /\ IsDict(Head(items)) /\ HasPointKey(Head(items)) ->
               <<Head(items)>>
          [] OTHER -> <<>>)
       \o ProcessItems(Tail(items), element_type)
\* from_dict.process_structural_elements
process_structural_elements(system_data, element_type) ==
  IF IsList(system_data) THEN ProcessItems(system_data.items, element_type) ELSE <<>>

\* frame_data[key] = item[key], for a key the item has
TakeSystem(item, key, frame_data) ==
  IF HasKey(item, key) THEN SetItem(frame_data, key, Lookup(item, key)) ELSE frame_data
RECURSIVE FrameDataOfItems(_, _)
\* the loop over a list StructuralFrame; an entry that is neither a str nor a dict
\* is passed over (a str entry is json text, which no input here holds)
FrameDataOfItems(items, frame_data) ==
  IF items = <<>> THEN frame_data
  ELSE IF IsDict(Head(items))
       THEN FrameDataOfItems(Tail(items),
              TakeSystem(Head(items), "SlabSystem",
                TakeSystem(Head(items), "ColumnSystem",
                  TakeSystem(Head(items), "BeamSystem", frame_data))))
       ELSE FrameDataOfItems(Tail(items), frame_data)
\* frame_data of from_dict, for data that has a StructuralFrame
FrameData(struct_frame) ==
  IF IsList(struct_frame) THEN PyDict(FrameDataOfItems(struct_frame.items, <<>>))
  ELSE struct_frame

\* float(...) with 0.0 in place of a ValueError or TypeError
FloatOrZero(out) == IF IsOk(out) THEN PyNum(out.v) ELSE PyNum(0)

\* the try block for one beam, once both points are converted
BeamOfPoints(beam_data, start, end) ==
  IF ~IsOk(start) \/ ~IsOk(end) THEN <<>>
  ELSE <<BeamGeometry(str(GetOr(beam_data, "Name", PyStr("Beam"))), start.v, end.v,
                      FloatOrZero(Float(GetOr(beam_data, "CarbonEmission", PyNum(0)))),
                      PyStr("Beam"), <<>>)>>
\* the loop body over beam_system: the beam appended, or nothing
BeamOfRecord(beam_data) ==
  IF ~IsDict(beam_data) THEN <<>>
  ELSE BeamOfPoints(beam_data,
                    parse_point(GetOr(beam_data, "PointStart", PyStr("0,0,0"))),
                    parse_point(GetOr(beam_data, "PointEnd", PyStr("0,0,0"))))
BeamsOf(beam_system) ==
  Flatten([i \in 1..Len(beam_system) |-> BeamOfRecord(beam_system[i])])

RECURSIVE ColumnSystemOfItems(_, _)
\* the loop over a list ColumnSystem, which breaks at the first list entry
ColumnSystemOfItems(items, column_system) ==
  IF items = <<>> THEN column_system
  ELSE IF IsList(Head(items))
       THEN process_structural_elements(PyList(<<Head(items)>>), "Column")
       ELSE IF IsDict(Head(items)) /\ HasPointKey(Head(items))
            THEN ColumnSystemOfItems(Tail(items),
                   process_structural_elements(PyList(<<Head(items)>>), "Column"))
            ELSE ColumnSystemOfItems(Tail(items), column_system)
\* the try block for one column: the carbon value has no fallback
ColumnOfPoints(column_data, start, end, carbon) ==
  IF ~IsOk(start) \/ ~IsOk(end) \/ ~IsOk(carbon) THEN <<>>
  ELSE <<BeamGeometry(str(GetOr(column_data, "Name", PyStr("Column"))), start.v, end.v,
                      PyNum(carbon.v), PyStr("Column"), <<>>)>>
\* the loop body over column_system
ColumnOfRecord(column_data) ==
  IF ~IsColumnRecord(column_data) THEN <<>>
  ELSE ColumnOfPoints(column_data,
                      parse_point(Lookup(column_data, "PointStart")),
                      parse_point(Lookup(column_data, "PointEnd")),
                      Float(GetOr(column_data, "CarbonEmission", PyStr("0"))))
ColumnsOf(column_system) ==
  Flatten([i \in 1..Len(column_system) |-> ColumnOfRecord(column_system[i])])

\* the try block for one slab, once the four corners are converted
SlabOfPoints(slab_data, corners) ==
  IF ~AllOk(corners) THEN <<>>
  ELSE <<SlabGeometry(str(GetOr(slab_data, "Name", PyStr("Slab"))), Values(corners),
                      FloatOrZero(Float(GetOr(slab_data, "CarbonEmission", PyNum(0)))),
                      PyStr("Slab"), <<>>)>>
\* the loop body over slab_system
SlabOfRecord(slab_data) ==
  IF ~IsSlabRecord(slab_data) THEN <<>>
  ELSE SlabOfPoints(slab_data,
                    [i \in 1..4 |-> parse_point(Lookup(slab_data, "Point" \o NatStr(i)))])
SlabsOf(slab_system) ==
  Flatten([i \in 1..Len(slab_system) |-> SlabOfRecord(slab_system[i])])

\* the three blocks of from_dict over frame_data
SceneOfFrameData(data, frame_data) ==
  MeshScene(<<>>,
            IF IsDict(frame_data) /\ HasKey(frame_data, "BeamSystem")
            THEN BeamsOf(process_structural_elements(Lookup(frame_data, "BeamSystem"), "Beam"))
            ELSE <<>>,
            IF IsDict(frame_data) /\ HasKey(frame_data, "ColumnSystem")
               /\ IsList(Lookup(frame_data, "ColumnSystem"))
            THEN ColumnsOf(ColumnSystemOfItems(Lookup(frame_data, "ColumnSystem").items, <<>>))
            ELSE <<>>,
            IF IsDict(frame_data) /\ HasKey(frame_data, "SlabSystem")
            THEN SlabsOf(process_structural_elements(Lookup(frame_data, "SlabSystem"), "Slab"))
            ELSE <<>>,
            data.pairs)
\* MeshScene.from_dict(data), for a dict that has a StructuralFrame
from_dict(data) == Ok(SceneOfFrameData(data, FrameData(Lookup(data, "StructuralFrame"))))

(***************************************************************************)
(* The inputs: files for load_scene, scenes built directly from elements,  *)
(* and classifiers for the aggregation methods.                            *)
(***************************************************************************)
RECURSIVE SeqsUpTo(_, _)
\* the sequences over S of length at most n
SeqsUpTo(S, n) ==
  IF n = 0 THEN {<<>>}
  ELSE LET shorter == SeqsUpTo(S, n - 1)
       IN shorter \cup {Append(q, x) : q \in {r \in shorter : Len(r) = n - 1}, x \in S}

Beam(start, end) == PyDict(<<KV("PointStart", start), KV("PointEnd", end)>>)
BeamWith(start, end, extra) ==
  PyDict(<<KV("PointStart", start), KV("PointEnd", end)>> \o extra)

\* beam and column records: sound and unsound geometry, then the carbon field in its
\* spellings and encodings, then an entry that is no record at all
BeamRecords ==
  { Beam(PyStr("{0,0,0}"), PyStr("{3,4,0}")),
    Beam(PyStr("{ 3, 4, 0 }"), PyStr("{3, 4, 12}")),
    PyDict(<<KV("PointEnd", PyStr("{3,4,0}"))>>),
    Beam(PyStr("{1,2}"), PyStr("{3,4,0}")),
    Beam(PyStr("{0,0,0}"), PyStr("{0,0,a}")),
    Beam(PyNum(5), PyStr("{3,4,0}")),
    BeamWith(PyStr("{0,0,0}"), PyStr("{3,4,0}"), <<KV("CarbonEmission", PyStr("10"))>>),
    BeamWith(PyStr("{0,0,0}"), PyStr("{3,4,0}"), <<KV("CarbonEmission", PyNum(0))>>),
    BeamWith(PyStr("{0,0,0}"), PyStr("{0,0,12}"),
             <<KV("CarbonEmmision", PyStr("7")), KV("Name", PyStr("B7"))>>),
    BeamWith(PyStr("{0,0,0}"), PyStr("{3,4,0}"),
             <<KV("CarbonEmission", PyStr("x")), KV("CarbonEmmision", PyStr("7"))>>),
    PyNum(7) }

ColumnRecords ==
  { Beam(PyStr("{0,0,0}"), PyStr("{0,0,12}")),
    BeamWith(PyStr("{3,4,0}"), PyStr("{3,4,12}"), <<KV("CarbonEmission", PyStr("-4"))>>),
    Beam(PyStr("{1,2,3,4}"), PyStr("{0,0,12}")),
    Beam(PyStr(""), PyStr("{0,0,12}")) }

Slab(p1, p2, p3, p4) ==
  PyDict(<<KV("Point1", p1), KV("Point2", p2), KV("Point3", p3), KV("Point4", p4)>>)

SlabRecords ==
  { Slab(PyStr("{0,0,0}"), PyStr("{2,0,0}"), PyStr("{2,4,0}"), PyStr("{0,4,0}")),
    PyDict(<<KV("point3", PyStr("{2,4,12}")), KV("CarbonEmission", PyStr("9")),
             KV("Point1", PyStr("{0,0,12}")), KV("POINT4", PyStr("{0,4,12}")),
             KV("Point2", PyStr("{2,0,12}"))>>),
    PyDict(<<KV("Point1", PyStr("{0,0,0}")), KV("Point2", PyStr("{2,0,0}")),
             KV("CarbonEmission", PyNum(0))>>),
    Slab(PyStr("{0,0,0}"), PyStr("{2,0,0}"), PyStr("{2,4,a}"), PyStr("{0,4,0}")),
    Slab(PyStr("{0,0,0}"), PyStr("{2,0}"), PyStr("{2,4,0}"), PyStr("{0,4,0}")),
    Slab(PyStr("{0,0,0}"), PyNum(5), PyStr("{2,4,0}"), PyStr("{0,4,0}")),
    PyDict(<<KV("Name", PyStr("deck"))>>) }

RecordsOfKind(kind) ==
  CASE kind = "BeamSystem" -> BeamRecords
    [] kind = "ColumnSystem" -> ColumnRecords
    [] OTHER -> SlabRecords

SystemKinds == {"BeamSystem", "ColumnSystem", "SlabSystem"}
Encodings == {"nested", "flat", "dict"}

\* a system payload holding the records recs in one of the three encodings
Encode(enc, recs) ==
  CASE enc = "nested" -> PyList(<<PyList(recs)>>)
    [] enc = "flat" -> PyList(recs)
    [] OTHER -> PyDict(<<KV("elements", PyList(recs))>>)

Frame(frame) == JsonFile(PyDict(<<KV("StructuralFrame", frame)>>))
OneSystemFrame(kind, enc, recs) == Frame(PyDict(<<KV(kind, Encode(enc, recs))>>))

\* frames of one system, in each encoding
OneSystemFiles ==
  UNION { { OneSystemFrame(kind, enc, recs) :
              enc \in Encodings, recs \in SeqsUpTo(RecordsOfKind(kind), MaxElems) } :
          kind \in SystemKinds }

GoodBeams == <<Beam(PyStr("{0,0,0}"), PyStr("{3,4,0}")),
               BeamWith(PyStr("{0,0,0}"), PyStr("{0,0,12}"),
                        <<KV("CarbonEmission", PyStr("10"))>>)>>
GoodColumns == <<BeamWith(PyStr("{3,4,0}"), PyStr("{3,4,12}"),
                          <<KV("CarbonEmmision", PyStr("6"))>>)>>
GoodSlabs == <<Slab(PyStr("{0,0,12}"), PyStr("{2,0,12}"), PyStr("{2,4,12}"), PyStr("{0,4,12}"))>>
Metrics == PyDict(<<KV("TotalCO2", PyStr("33")), KV("Count", PyNum(2))>>)

\* frames of several systems, in the dict and the list variant of StructuralFrame
SeveralSystemFiles ==
  { Frame(PyDict(<<KV("BeamSystem", PyList(<<PyList(GoodBeams), Metrics>>)),
                   KV("ColumnSystem", Encode("dict", GoodColumns)),
                   KV("SlabSystem", Encode("nested", GoodSlabs)),
                   KV("TotalCO2", PyStr("49"))>>)),
    Frame(PyList(<<PyDict(<<KV("BeamSystem", Encode("nested", GoodBeams)),
                            KV("TotalCO2", PyStr("49"))>>),
                   PyNum(3),
                   PyDict(<<KV("BeamSystem", Encode("nested", GoodBeams)),
                            KV("SlabSystem", Encode("nested", GoodSlabs))>>),
                   PyDict(<<KV("ColumnSystem", Encode("nested", GoodColumns))>>)>>)),
    Frame(PyList(<<PyDict(<<KV("SlabSystem", Encode("nested", GoodSlabs))>>),
                   PyDict(<<KV("ColumnSystem", Encode("nested",
                                 <<Beam(PyStr("{0,0}"), PyStr("{0,0,12}"))>>))>>)>>)),
    Frame(PyNone), Frame(PyStr("abc")), Frame(PyNum(5)), Frame(PyList(<<>>)) }

Block(uuid, data) == PyDict(<<KV("uuid", PyStr(uuid)), KV("data", PyDict(data))>>)
Nums(ns) == PyList([i \in 1..Len(ns) |-> PyNum(ns[i])])

\* geometry blocks: sound ones, ones with a wrong vertex or face array, ill-typed ones
SoundBlocks ==
  { Block("a", <<KV("vertices", Nums(<<0, 0, 0, 2, 4, 12>>)),
                 KV("faces", Nums(<<0, 0, 1, 1, 0, 1, 0, 0>>)),
                 KV("embodiedCarbon", PyNum(12))>>),
    Block("b", <<KV("vertices", Nums(<<1, 1, 1>>)),
                 KV("embodiedCarbon", PyStr("5")),
                 KV("structural_type", PyStr("Beam"))>>),
    Block("c", <<KV("vertices", Nums(<<0, 0, 12, 3, 4, 12, 3, 0, 12>>)),
                 KV("faces", Nums(<<0, 0, 1, 2>>)),
                 KV("embodiedCarbon", PyNum(0))>>),
    Block("d", <<KV("vertices", Nums(<<0, 0, 0>>)),
                 KV("embodiedCarbon", PyStr("n/a")),
                 KV("structural_type", PyStr(""))>>),
    PyDict(<<KV("data", PyNone)>>) }
UnsoundBlocks ==
  { Block("e", <<KV("vertices", Nums(<<1, 2, 3, 4, 5>>))>>),
    Block("f", <<KV("vertices", Nums(<<0, 0, 0>>)), KV("faces", Nums(<<0, 0, 0, 0, 1, 0, 0, 0>>))>>),
    Block("g", <<KV("vertices", Nums(<<0, 0, 0>>)), KV("faces", Nums(<<0, 0, 0, 0, 0>>))>>) }
IllTypedBlocks ==
  { Block("h", <<KV("vertices", PyNone)>>), PyNum(5) }
Blocks == SoundBlocks \cup UnsoundBlocks \cup IllTypedBlocks
\* blocks whose arrays have the lengths the format asks for, with a face that names a
\* vertex the block does not have
OutOfRangeBlocks ==
  { Block("i", <<KV("vertices", Nums(<<0, 0, 0>>)), KV("faces", Nums(<<0, 0, 1, 2>>))>>),
    Block("j", <<KV("vertices", Nums(<<0, 0, 0, 1, 1, 1>>)),
                 KV("faces", Nums(<<0, 0, 1, 0, 0, 1, 0 - 1, 7>>))>>) }

Child(uuid, name) ==
  PyDict(<<KV("type", PyStr("Mesh")), KV("geometry", PyStr(uuid)), KV("name", PyStr(name))>>)
Children ==
  PyList(<<Child("a", "Floor Beam"), Child("b", "floor slab"), Child("c", "Post 1"),
           PyDict(<<KV("type", PyStr("Group")), KV("geometry", PyStr("d")),
                    KV("name", PyStr("group"))>>),
           Child("e", "wall"), Child("f", "roof")>>)

MeshExport(blocks) ==
  JsonFile(PyDict(<<KV("geometries", PyList(blocks)),
                    KV("object", PyDict(<<KV("children", Children)>>))>>))
MeshExportFiles == { MeshExport(blocks) : blocks \in SeqsUpTo(Blocks, MaxBlocks) }
OutOfRangeFiles ==
  { MeshExport(<<g>>) : g \in OutOfRangeBlocks }
    \cup { MeshExport(<<s, g>>) : s \in SoundBlocks, g \in OutOfRangeBlocks }
\* a slab system of one record whose corner keys carry no number
LetteredCorners ==
  PyDict(<<KV("PointA", PyStr("{0,0,0}")), KV("PointB", PyStr("{2,0,0}")),
           KV("PointC", PyStr("{2,4,0}"))>>)
LetteredCornerFiles ==
  { OneSystemFrame("SlabSystem", enc, <<LetteredCorners>>) : enc \in {"nested", "dict"} }
\* frames given as one object with a total at the frame level
FrameTotalFiles ==
  { Frame(PyDict(<<KV("TotalCO2", PyNum(49))>>)),
    Frame(PyDict(<<KV("BeamSystem", Encode("nested", GoodBeams)),
                   KV("TotalCO2", PyStr("49"))>>)) }
\* a payload with a frame and geometry blocks side by side
MixedFiles ==
  { JsonFile(PyDict(<<KV("geometries", PyList(<<g>>)),
                      KV("StructuralFrame",
                         PyDict(<<KV("BeamSystem", Encode("nested", GoodBeams))>>))>>)) :
      g \in SoundBlocks }

\* files that are no payload of either format
OtherFiles ==
  { MissingFile, InvalidFile,
    JsonFile(PyList(<<>>)), JsonFile(PyList(<<PyStr("StructuralFrame")>>)),
    JsonFile(PyNum(5)), JsonFile(PyNone), JsonFile(PyStr("x")),
    JsonFile(PyDict(<<>>)), JsonFile(PyDict(<<KV("geometries", PyNone)>>)),
    JsonFile(PyDict(<<KV("object", PyNum(5))>>)),
    JsonFile(PyDict(<<KV("metadata", PyDict(<<>>))>>)) }

Files ==
  OneSystemFiles \cup SeveralSystemFiles \cup MeshExportFiles \cup OutOfRangeFiles
    \cup LetteredCornerFiles \cup FrameTotalFiles \cup MixedFiles \cup OtherFiles

\* elements for scenes built with the MeshScene constructor
MeshPool ==
  <<MeshGeometry("Floor Girder", <<Vertex(0, 0, 0), Vertex(2, 4, 12)>>, <<>>, <<>>,
                 PyNum(8), PyNone),
    MeshGeometry("shell", <<>>, <<>>, <<>>, PyNone, PyNone)>>
BeamPool ==
  <<BeamGeometry("floor girder", Vertex(0, 0, 0), Vertex(3, 4, 0), PyNum(10), PyNone, <<>>),
    BeamGeometry("Beam_001", Vertex(0, 0, 0), Vertex(0, 0, 0), PyNone, PyStr("Beam"), <<>>)>>
ColumnPool ==
  <<BeamGeometry("Column_000", Vertex(0, 0, 0), Vertex(0, 0, 12), PyNum(6), PyStr("Column"),
                 <<>>)>>
SlabPool ==
  <<SlabGeometry("Floor_000", <<Vertex(0, 0, 0), Vertex(2, 0, 0), Vertex(2, 4, 0),
                                Vertex(0, 4, 0)>>, PyNone, PyStr("Floor"), <<>>),
    SlabGeometry("plate", <<Vertex(0, 0, 12), Vertex(2, 0, 12)>>, PyNum(3), PyStr(""), <<>>)>>
Prefixes(pool) == {SubSeq(pool, 1, n) : n \in 0..Len(pool)}
\* a scene whose column and slab carry the same carbon, more than its beam
TiedScene ==
  MeshScene(<<>>,
            <<BeamGeometry("Beam_000", Vertex(0, 0, 0), Vertex(3, 4, 0), PyNum(3), PyStr("Beam"),
                           <<>>)>>,
            <<BeamGeometry("Column_000", Vertex(0, 0, 0), Vertex(0, 0, 12), PyNum(10),
                           PyStr("Column"), <<>>)>>,
            <<SlabGeometry("Floor_000", <<Vertex(0, 0, 12), Vertex(2, 0, 12), Vertex(2, 4, 12),
                                          Vertex(0, 4, 12)>>, PyNum(10), PyStr("Floor"), <<>>)>>,
            <<>>)
Scenes ==
  { MeshScene(ms, bs, cs, ss, <<>>) :
      ms \in Prefixes(MeshPool), bs \in Prefixes(BeamPool),
      cs \in Prefixes(ColumnPool), ss \in Prefixes(SlabPool) }
    \cup {TiedScene}

\* the mapping the application's text area holds by default, and an edited one
DefaultMapping == <<KV("floor", "Floor"), KV("beam", "Beam"), KV("column", "Column")>>
EditedMapping == <<KV("girder", "Girders"), KV("post", "Posts"), KV("floor", "Decks")>>
Classifiers ==
  { NoClassifier, AppClassifierOf(DefaultMapping), AppClassifierOf(EditedMapping),
    NameClassifier, ConstClassifier }

(***************************************************************************)
(* The state: the file load_scene was given (NoFile for a Scene built      *)
(* directly), what the load returned or raised, the rows the ChartsBuilder *)
(* holds, and the last aggregation call with its result.                   *)
(***************************************************************************)
VARIABLES pc, path, result, measure, _summary, chart
vars == <<pc, path, result, measure, _summary, chart>>

NoFile == [t |-> "none"]
NoResult == [kind |-> "none"]
NoRows == <<>>
NoMeasure == [op |-> "none"]
NoChart == [op |-> "none"]

Init ==
  /\ pc = "start"
  /\ path = NoFile
  /\ result = NoResult
  /\ measure = NoMeasure
  /\ _summary = NoRows
  /\ chart = NoChart

\* load_scene(path)
LoadScene ==
  /\ pc = "start"
  /\ \E f \in Files :
       /\ path' = f
       /\ result' = load_scene(f)
  /\ pc' = "loaded"
  /\ UNCHANGED <<measure, _summary, chart>>

\* MeshScene(meshes=..., beams=..., columns=..., slabs=...)
NewScene ==
  /\ pc = "start"
  /\ \E scene \in Scenes : result' = Ok(scene)
  /\ pc' = "loaded"
  /\ UNCHANGED <<path, measure, _summary, chart>>

Measured(op, out) == [op |-> op, out |-> out]

\* scene.total_vertices()
TotalVertices ==
  /\ pc = "loaded"
  /\ IsOk(result)
  /\ measure' = Measured("total_vertices", total_vertices(result.v))
  /\ pc' = "measured"
  /\ UNCHANGED <<path, result, _summary, chart>>

\* scene.total_faces()
TotalFaces ==
  /\ pc = "loaded"
  /\ IsOk(result)
  /\ measure' = Measured("total_faces", total_faces(result.v))
  /\ pc' = "measured"
  /\ UNCHANGED <<path, result, _summary, chart>>

\* scene.aggregate_bounds()
AggregateBounds ==
  /\ pc = "loaded"
  /\ IsOk(result)
  /\ measure' = Measured("aggregate_bounds", aggregate_bounds(result.v))
  /\ pc' = "measured"
  /\ UNCHANGED <<path, result, _summary, chart>>

\* load_scene_safe(data) on the decoded payload of a frame file: MeshScene.from_dict(data)
FromDict ==
  /\ pc = "loaded"
  /\ IsOk(result)
  /\ path.t = "json"
  /\ IsDict(path.data)
  /\ HasKey(path.data, "StructuralFrame")
  /\ measure' = Measured("from_dict", from_dict(path.data))
  /\ pc' = "measured"
  /\ UNCHANGED <<path, result, _summary, chart>>

\* ChartsBuilder(scene)
NewChartsBuilder ==
  /\ pc = "loaded"
  /\ IsOk(result)
  /\ _summary' = summary(result.v)
  /\ pc' = "charts"
  /\ UNCHANGED <<path, result, measure, chart>>

Called(op, classifier, out) == [op |-> op, classifier |-> classifier, out |-> out]

CarbonPie ==
  /\ pc = "charts"
  /\ \E classifier \in Classifiers :
       chart' = Called("carbon_pie", classifier, carbon_pie(_summary, classifier))
  /\ UNCHANGED <<pc, path, result, measure, _summary>>

\* an aggregation that writes the group it found into each row
AggregationWritesGroup ==
  /\ pc = "charts"
  /\ \E classifier \in Classifiers :
       /\ chart' = Called("carbon_aggregation_summary", classifier,
                          carbon_aggregation_summary(_summary, classifier))
       /\ _summary' = [i \in 1..Len(_summary) |->
                         [_summary[i] EXCEPT !.structural_type =
                            PyStr(Classify("carbon_aggregation_summary", classifier,
                                           _summary[i]))]]
  /\ UNCHANGED <<pc, path, result, measure>>
\* charts.carbon_aggregation_summary(classifier=...)
CarbonAggregationSummary ==
  /\ pc = "charts"
  /\ \E classifier \in Classifiers :
       chart' = Called("carbon_aggregation_summary", classifier,
                       carbon_aggregation_summary(_summary, classifier))
  /\ UNCHANGED <<pc, path, result, measure, _summary>>

CarbonIntensityAnalysis ==
  /\ pc = "charts"
  /\ \E classifier \in Classifiers :
       chart' = Called("carbon_intensity_analysis", classifier,
                       carbon_intensity_analysis(_summary, classifier))
  /\ UNCHANGED <<pc, path, result, measure, _summary>>

CarbonByFloorLevel ==
  /\ pc = "charts"
  /\ chart' = Called("carbon_by_floor_level", NoClassifier, carbon_by_floor_level(_summary))
  /\ UNCHANGED <<pc, path, result, measure, _summary>>

CarbonKpiDashboard ==
  /\ pc = "charts"
  /\ \E classifier \in Classifiers :
       chart' = Called("carbon_kpi_dashboard", classifier,
                       carbon_kpi_dashboard(_summary, classifier))
  /\ UNCHANGED <<pc, path, result, measure, _summary>>

Next ==
  \/ LoadScene
  \/ NewScene
  \/ TotalVertices
  \/ TotalFaces
  \/ AggregateBounds
  \/ FromDict
  \/ NewChartsBuilder
  \/ CarbonPie
  \/ CarbonAggregationSummary
  \/ CarbonIntensityAnalysis
  \/ CarbonByFloorLevel
  \/ CarbonKpiDashboard

Spec == Init /\ [][Next]_vars

(***************************************************************************)
(* The mesh-export parser: vertex and face arrays.                         *)
(***************************************************************************)
\* a file holding a mesh-export payload with a list of geometry blocks
IsMeshExport(f) ==
  /\ f.t = "json"
  /\ IsDict(f.data)
  /\ ~HasKey(f.data, "StructuralFrame")
  /\ IsList(Get(f.data, "geometries"))
BlocksOf(f) == Get(f.data, "geometries").items
NumberList(v) == IsList(v) /\ \A i \in 1..Len(v.items) : IsNum(v.items[i])
\* the vertices or faces array of a block, empty when the block has none
ArrayOf(g, key) ==
  IF IsDict(Get(g, "data")) THEN GetOr(Get(g, "data"), key, PyList(<<>>)) ELSE PyList(<<>>)
\* a block of the shape the format prescribes: a dict whose arrays are lists of numbers
WellTypedBlock(g) ==
  /\ IsDict(g)
  /\ IsStr(Get(g, "uuid")) \/ IsNone(Get(g, "uuid"))
  /\ IsDict(Get(g, "data")) \/ IsNone(Get(g, "data"))
  /\ NumberList(ArrayOf(g, "vertices"))
  /\ NumberList(ArrayOf(g, "faces"))
WellTypedExport(f) ==
  IsMeshExport(f) /\ \A i \in 1..Len(BlocksOf(f)) : WellTypedBlock(BlocksOf(f)[i])

BadVertexArray(g) == Len(ArrayOf(g, "vertices").items) % 3 # 0
FacesOf(g) == ArrayOf(g, "faces").items
\* the length is a multiple of 4 and the flag of every quadruple is 0
AcceptableFaces(g) ==
  /\ Len(FacesOf(g)) % 4 = 0
  /\ \A q \in 1..(Len(FacesOf(g)) \div 4) : FacesOf(g)[4 * q - 3].n = 0
\* the triples (a, b, c) of the quadruples, in input order
TriplesOf(g) ==
  [q \in 1..(Len(FacesOf(g)) \div 4) |->
     <<FacesOf(g)[4 * q - 2].n, FacesOf(g)[4 * q - 1].n, FacesOf(g)[4 * q].n>>]
SoundBlock(g) == WellTypedBlock(g) /\ ~BadVertexArray(g) /\ AcceptableFaces(g)

\* C1: a mesh export in which some geometry block has a vertex array whose length is
\* not a multiple of 3 makes load_scene raise MeshParseError, and no Scene is
\* returned, whatever valid blocks come before or after the bad one.
C1_BadVertexArrayRaises ==
  ( /\ pc # "start"
    /\ WellTypedExport(path)
    /\ \E i \in 1..Len(BlocksOf(path)) : BadVertexArray(BlocksOf(path)[i]) )
  => result.kind = "MeshParseError"

\* a bad vertex array between two valid blocks was refused
C1_Witness ==
  /\ pc = "loaded"
  /\ WellTypedExport(path)
  /\ Len(BlocksOf(path)) = 3
  /\ SoundBlock(BlocksOf(path)[1]) /\ ArrayOf(BlocksOf(path)[1], "vertices").items # <<>>
  /\ BadVertexArray(BlocksOf(path)[2])
  /\ SoundBlock(BlocksOf(path)[3]) /\ ArrayOf(BlocksOf(path)[3], "vertices").items # <<>>
  /\ result.kind = "MeshParseError"

\* C2: in a mesh export, the face arrays are accepted only if each has a length that is
\* a multiple of 4 and a flag of 0 in every quadruple, and each block then gets exactly
\* the triples (a, b, c) in input order; a non-zero flag or a length that is no
\* multiple of 4 makes the load raise MeshParseError.
C2_FaceArrays ==
  ( /\ pc # "start"
    /\ WellTypedExport(path)
    /\ \A i \in 1..Len(BlocksOf(path)) : ~BadVertexArray(BlocksOf(path)[i]) )
  => IF \A i \in 1..Len(BlocksOf(path)) : AcceptableFaces(BlocksOf(path)[i])
     THEN /\ result.kind = "ok"
          /\ Len(result.v.meshes) = Len(BlocksOf(path))
          /\ \A i \in 1..Len(BlocksOf(path)) :
               result.v.meshes[i].faces = TriplesOf(BlocksOf(path)[i])
     ELSE result.kind = "MeshParseError"

\* a non-zero flag in the second quadruple of a block was refused, after a block whose
\* two faces are acceptable
C2_Witness ==
  /\ pc = "loaded"
  /\ WellTypedExport(path)
  /\ Len(BlocksOf(path)) = 2
  /\ SoundBlock(BlocksOf(path)[1]) /\ Len(FacesOf(BlocksOf(path)[1])) = 8
  /\ ~BadVertexArray(BlocksOf(path)[2])
  /\ Len(FacesOf(BlocksOf(path)[2])) = 8
  /\ FacesOf(BlocksOf(path)[2])[1].n = 0
  /\ FacesOf(BlocksOf(path)[2])[5].n # 0
  /\ result.kind = "MeshParseError"

(***************************************************************************)
(* The structural-frame parser: points, encodings and the carbon field.    *)
(***************************************************************************)
\* a file whose StructuralFrame is a dict holding one system and nothing else
IsOneSystemFrame(f) ==
  /\ f.t = "json"
  /\ IsDict(f.data)
  /\ Keys(f.data) = <<"StructuralFrame">>
  /\ IsDict(Lookup(f.data, "StructuralFrame"))
  /\ Len(Lookup(f.data, "StructuralFrame").pairs) = 1
  /\ Lookup(f.data, "StructuralFrame").pairs[1].k \in SystemKinds
SystemKindOf(f) == Lookup(f.data, "StructuralFrame").pairs[1].k
PayloadOf(f) == Lookup(f.data, "StructuralFrame").pairs[1].v

\* the encoding of a payload: a dict wrapping "elements", a list of lists, a list of
\* records
ListOfLists(payload) ==
  IsList(payload) /\ payload.items # <<>>
    /\ \A i \in 1..Len(payload.items) : IsList(payload.items[i])
WrapsElements(payload) == IsDict(payload) /\ IsList(Get(payload, "elements"))
\* the flat list of element records the three encodings stand for
RecordsOf(payload) ==
  IF WrapsElements(payload) THEN Get(payload, "elements").items
  ELSE IF ListOfLists(payload)
  THEN Flatten([i \in 1..Len(payload.items) |-> payload.items[i].items])
  ELSE IF IsList(payload) THEN payload.items
  ELSE <<>>

\* a record whose point fields are strings
PointPairs(rec) == SelectSeq(rec.pairs, LAMBDA pair : IsCornerKey(pair.k))
WellTypedRecord(rec) ==
  IsDict(rec) /\ \A i \in 1..Len(PointPairs(rec)) : IsStr(PointPairs(rec)[i].v)
\* a point string that is not three numeric components
BadPointString(s) ==
  \/ Len(split(strip(s, "{}"), ",")) # 3
  \/ \E i \in 1..Len(split(strip(s, "{}"), ",")) :
       ~IsOk(FloatOfStr(strip(split(strip(s, "{}"), ",")[i], WhiteSpace)))
HasBadPoint(rec) ==
  \E i \in 1..Len(PointPairs(rec)) : BadPointString(PointPairs(rec)[i].v.s)

\* C3: a point string of a beam, column or slab record that is not exactly three
\* numeric components makes load_scene raise MeshParseError, for the three kinds alike.
C3_BadPointRaises ==
  ( /\ pc # "start"
    /\ IsOneSystemFrame(path)
    /\ WrapsElements(PayloadOf(path)) \/ ListOfLists(PayloadOf(path))
    /\ \A i \in 1..Len(RecordsOf(PayloadOf(path))) :
         WellTypedRecord(RecordsOf(PayloadOf(path))[i])
    /\ \E i \in 1..Len(RecordsOf(PayloadOf(path))) :
         HasBadPoint(RecordsOf(PayloadOf(path))[i]) )
  => result.kind = "MeshParseError"

\* C4: for every input file load_scene returns a Scene or raises MeshParseError; no
\* other kind of exception escapes it.
C4_OnlyMeshParseError ==
  (pc # "start" /\ path # NoFile) => result.kind \in {"ok", "MeshParseError"}

\* two results with the same elements in the same order, or the same kind of raise
SameElements(a, b) ==
  /\ a.kind = b.kind
  /\ a.kind = "ok" =>
       /\ a.v.beams = b.v.beams
       /\ a.v.columns = b.v.columns
       /\ a.v.slabs = b.v.slabs

\* C9: a system's records give the same elements in the same order whether they are
\* encoded as a list of lists, as a list of records, or as a dict wrapping "elements".
C9_EncodingsAgree ==
  ( /\ pc # "start"
    /\ IsOneSystemFrame(path)
    /\ \A i \in 1..Len(RecordsOf(PayloadOf(path))) : IsDict(RecordsOf(PayloadOf(path))[i]) )
  => SameElements(result,
                  load_scene(OneSystemFrame(SystemKindOf(path), "nested",
                                            RecordsOf(PayloadOf(path)))))

\* the carbon value the format prescribes for a field: its float when it is there and
\* converts, null otherwise
CarbonOf(field) ==
  IF ~IsNone(field) /\ IsOk(Float(field)) THEN PyNum(Float(field).v) ELSE PyNone
\* the carbon field of a frame record that has at most one of the two spellings
OneSpelling(rec) == ~(HasKey(rec, "CarbonEmission") /\ HasKey(rec, "CarbonEmmision"))
SpelledCarbon(rec) ==
  IF HasKey(rec, "CarbonEmission") THEN Lookup(rec, "CarbonEmission")
  ELSE Get(rec, "CarbonEmmision")
ElementsOf(scene) == scene.beams \o scene.columns \o scene.slabs

\* C10: the embodied_carbon of every parsed element, in either format, is the float of
\* its carbon field when the field is there and converts to a number (zero included,
\* either spelling), and null otherwise.
C10_CarbonIsFloatOfField ==
  /\ ( /\ pc # "start"
       /\ IsOneSystemFrame(path)
       /\ WrapsElements(PayloadOf(path)) \/ ListOfLists(PayloadOf(path))
       /\ \A i \in 1..Len(RecordsOf(PayloadOf(path))) :
            IsDict(RecordsOf(PayloadOf(path))[i]) /\ OneSpelling(RecordsOf(PayloadOf(path))[i])
       /\ result.kind = "ok" )
     => /\ Len(ElementsOf(result.v)) = Len(RecordsOf(PayloadOf(path)))
        /\ \A i \in 1..Len(RecordsOf(PayloadOf(path))) :
             ElementsOf(result.v)[i].embodied_carbon
               = CarbonOf(SpelledCarbon(RecordsOf(PayloadOf(path))[i]))
  /\ (pc # "start" /\ WellTypedExport(path) /\ result.kind = "ok")
     => \A i \in 1..Len(BlocksOf(path)) :
          result.v.meshes[i].embodied_carbon
            = CarbonOf(IF IsDict(Get(BlocksOf(path)[i], "data"))
                       THEN Get(Get(BlocksOf(path)[i], "data"), "embodiedCarbon")
                       ELSE PyNone)

(***************************************************************************)
(* The summary rows and the aggregations over them.                        *)
(***************************************************************************)
NamesOf(elems) == [i \in 1..Len(elems) |-> elems[i].name]
CarbonsOf(elems) == [i \in 1..Len(elems) |-> elems[i].embodied_carbon]
TypesOf(elems) == [i \in 1..Len(elems) |-> elems[i].structural_type]

\* C5: summary() returns one row per element, len(meshes) + len(beams) + len(columns)
\* + len(slabs) rows: the surfaces first, then the beams, the columns and the slabs,
\* each in collection order, and an element whose embodied_carbon or structural_type
\* is null has its row like any other.
C5_SummaryRows ==
  pc = "charts" =>
    /\ Len(_summary) = Len(result.v.meshes) + Len(result.v.beams)
                         + Len(result.v.columns) + Len(result.v.slabs)
    /\ NamesOf(_summary) = NamesOf(result.v.meshes) \o NamesOf(result.v.beams)
                             \o NamesOf(result.v.columns) \o NamesOf(result.v.slabs)
    /\ CarbonsOf(_summary) = CarbonsOf(result.v.meshes) \o CarbonsOf(result.v.beams)
                               \o CarbonsOf(result.v.columns) \o CarbonsOf(result.v.slabs)
    /\ TypesOf(_summary) = TypesOf(result.v.meshes) \o TypesOf(result.v.beams)
                             \o TypesOf(result.v.columns) \o TypesOf(result.v.slabs)

\* the rows of a scene with elements of the four kinds, some without a carbon value and
\* some without a structural type
C5_Witness ==
  /\ pc = "charts"
  /\ result.v.meshes # <<>> /\ result.v.beams # <<>>
  /\ result.v.columns # <<>> /\ result.v.slabs # <<>>
  /\ \E i \in 1..Len(_summary) : IsNone(_summary[i].embodied_carbon)
  /\ \E i \in 1..Len(_summary) : IsNone(_summary[i].structural_type)
  /\ Len(_summary) >= 6

\* the rows of _summary that have a carbon value, by their index
Filtered == {i \in 1..Len(_summary) : ~IsNone(_summary[i].embodied_carbon)}
RECURSIVE TotalOver(_)
TotalOver(indices) ==
  IF indices = {} THEN 0
  ELSE _summary[Max(indices)].embodied_carbon.n + TotalOver(indices \ {Max(indices)})
\* the methods that group rows and total them
TotalsOps ==
  {"carbon_pie", "carbon_aggregation_summary", "carbon_kpi_dashboard", "carbon_by_floor_level"}
\* the groups of the figure a method returned
GroupsOf(called) ==
  IF called.op = "carbon_by_floor_level" THEN called.out.v.floors ELSE called.out.v.groups
LabelsOf(called) ==
  IF called.op = "carbon_by_floor_level"
  THEN [i \in 1..Len(called.out.v.floors) |-> called.out.v.floors[i].floor]
  ELSE [i \in 1..Len(called.out.v.groups) |-> called.out.v.groups[i].label]

\* C6: the grouped totals and the KPI figures are computed from the rows whose
\* embodied_carbon is not null and from no other; the groups partition those rows:
\* the group totals add up to their total carbon, the group counts to their number.
C6_GroupsPartitionCarbonRows ==
  (pc = "charts" /\ chart.op \in TotalsOps /\ IsOk(chart.out)) =>
    IF Filtered = {} THEN chart.out.v = EmptyFigure
    ELSE /\ ~chart.out.v.empty
         /\ SumSeq([i \in 1..Len(GroupsOf(chart)) |-> GroupsOf(chart)[i].total_carbon])
              = TotalOver(Filtered)
         /\ SumSeq([i \in 1..Len(GroupsOf(chart)) |-> GroupsOf(chart)[i].count])
              = Cardinality(Filtered)
         /\ \A i, j \in 1..Len(GroupsOf(chart)) :
              LabelsOf(chart)[i] = LabelsOf(chart)[j] => i = j
         /\ chart.op = "carbon_kpi_dashboard" =>
              chart.out.v.total_carbon = TotalOver(Filtered)

\* a KPI table of two groups or more, one of them of several rows, over rows of which
\* some have no carbon value
C6_Witness ==
  /\ pc = "charts"
  /\ chart.op = "carbon_kpi_dashboard"
  /\ IsOk(chart.out)
  /\ Cardinality(Filtered) < Len(_summary)
  /\ Cardinality(Filtered) >= 3
  /\ Len(chart.out.v.groups) >= 2
  /\ \E i \in 1..Len(chart.out.v.groups) : chart.out.v.groups[i].count >= 2

\* the methods that take a classifier
ClassifierOps ==
  {"carbon_pie", "carbon_aggregation_summary", "carbon_intensity_analysis",
   "carbon_kpi_dashboard"}
\* the rows with a carbon value that carry the structural type tag
TaggedRows(tag) ==
  {i \in Filtered : Truthy(_summary[i].structural_type) /\ _summary[i].structural_type.s = tag}
Tags == {_summary[i].structural_type.s : i \in {j \in Filtered : Truthy(_summary[j].structural_type)}}

\* C7: with no classifier, in every aggregation method, and with the application's
\* mapping classifier, a row with a non-empty structural_type gets that tag as its
\* group label, whatever its name and whatever the mapping holds.
C7_StructuralTypeIsLabel ==
  (pc = "charts" /\ chart.op \in ClassifierOps /\ chart.classifier.t \in {"None", "app"}) =>
    /\ \A i \in 1..Len(_summary) :
         Truthy(_summary[i].structural_type) =>
           Classify(chart.op, chart.classifier, _summary[i]) = _summary[i].structural_type.s
    /\ (chart.op \in TotalsOps /\ IsOk(chart.out)) =>
         \A tag \in Tags :
           \E g \in 1..Len(chart.out.v.groups) :
             /\ chart.out.v.groups[g].label = tag
             /\ chart.out.v.groups[g].count >= Cardinality(TaggedRows(tag))
    /\ (chart.op = "carbon_intensity_analysis" /\ IsOk(chart.out) /\ ~chart.out.v.empty) =>
         \A e \in 1..Len(chart.out.v.intensity_data) :
           \A i \in 1..Len(_summary) :
             ( /\ _summary[i].name = chart.out.v.intensity_data[e].name
               /\ Truthy(_summary[i].structural_type) )
             => chart.out.v.intensity_data[e].type = _summary[i].structural_type.s

\* the pie without a classifier put a row tagged "Beam" whose name contains "floor"
\* into the group "Beam"
C7_Witness ==
  /\ pc = "charts"
  /\ chart.op = "carbon_pie"
  /\ chart.classifier = NoClassifier
  /\ IsOk(chart.out)
  /\ \E i \in Filtered :
       /\ _summary[i].structural_type = PyStr("Beam")
       /\ Contains(lower(_summary[i].name), "floor")
  /\ \E g \in 1..Len(chart.out.v.groups) : chart.out.v.groups[g].label = "Beam"

\* the keyword fallback in its stated order
KeywordFallback(name) ==
  IF AnyIn(lower(name), {"slab", "floor", "plate"}) THEN "Floor"
  ELSE IF AnyIn(lower(name), {"beam", "girder"}) THEN "Beam"
  ELSE IF AnyIn(lower(name), {"column", "pillar", "post"}) THEN "Column"
  ELSE "Other"

\* C8: with no classifier, each of the four aggregation methods labels a row without
\* a structural type by the same keyword fallback, in the order slab/floor/plate ->
\* Floor, beam/girder -> Beam, column/pillar/post -> Column, else Other; a row has the
\* same label in the four methods.
C8_SameKeywordFallback ==
  (pc = "charts" /\ chart.op \in ClassifierOps /\ chart.classifier = NoClassifier) =>
    \A i \in 1..Len(_summary) :
      ~Truthy(_summary[i].structural_type) =>
        Classify(chart.op, chart.classifier, _summary[i]) = KeywordFallback(_summary[i].name)

(***************************************************************************)
(* Face indices of the mesh-export parser.                                 *)
(***************************************************************************)
\* every index of every face of the mesh names one of the mesh's vertices
IndicesInRange(mesh) ==
  \A q \in 1..Len(mesh.faces) :
    \A k \in 1..3 : mesh.faces[q][k] \in 0..(Len(mesh.vertices) - 1)

\* C11: every surface the mesh-export parser returns has all its face indices in
\* 0 .. number of vertices - 1; an export with a block that has an index outside that
\* range makes the load fail instead.
C11_FaceIndicesInRange ==
  ( /\ pc # "start"
    /\ WellTypedExport(path)
    /\ IsOk(result) )
  => \A i \in 1..Len(result.v.meshes) : IndicesInRange(result.v.meshes[i])

(***************************************************************************)
(* load_scene: the choice of the sub-parser.                               *)
(***************************************************************************)
\* a file whose decoded payload is an object
IsObjectFile(f) == f.t = "json" /\ IsDict(f.data)
NoFrameElements(scene) == scene.beams = <<>> /\ scene.columns = <<>> /\ scene.slabs = <<>>

\* C12: load_scene gives what the structural-frame parser gives, a Scene without
\* meshes, when the payload has the top-level key "StructuralFrame", and otherwise what
\* the mesh-export parser gives, a Scene without beams, columns and slabs; the other
\* parser contributes nothing to the load.
C12_TwoWayDispatch ==
  (pc # "start" /\ IsObjectFile(path))
  => IF HasKey(path.data, "StructuralFrame")
       THEN /\ result = parse_structural_frame(path.data)
            /\ IsOk(result) => result.v.meshes = <<>>
       ELSE /\ result = parse_scene(path.data)
            /\ IsOk(result) => NoFrameElements(result.v)

\* a payload with a frame of two beams next to a geometry block was loaded as a frame
C12_Witness ==
  /\ pc = "loaded"
  /\ IsObjectFile(path)
  /\ HasKey(path.data, "StructuralFrame")
  /\ IsList(Get(path.data, "geometries")) /\ Get(path.data, "geometries").items # <<>>
  /\ IsOk(result)
  /\ Len(result.v.beams) = 2
  /\ result.v.meshes = <<>>

\* C13: a payload that is an object with neither the key "StructuralFrame" nor the key
\* "geometries" makes load_scene raise; no Scene is returned for it.
C13_NeitherFormatRaises ==
  ( /\ pc # "start"
    /\ IsObjectFile(path)
    /\ ~HasKey(path.data, "StructuralFrame")
    /\ ~HasKey(path.data, "geometries") )
  => ~IsOk(result)

(***************************************************************************)
(* The empty scene.                                                        *)
(***************************************************************************)
NoElements(scene) == scene.meshes = <<>> /\ NoFrameElements(scene)
ZeroBox == <<<<0, 0, 0>>, <<0, 0, 0>>>>
ChartOps ==
  {"carbon_pie", "carbon_aggregation_summary", "carbon_intensity_analysis",
   "carbon_by_floor_level", "carbon_kpi_dashboard"}

\* C14: for a Scene with no element in any of its four collections summary() is empty,
\* aggregate_bounds() is the zero box, total_vertices() and total_faces() are 0, and
\* each of the five aggregations of ChartsBuilder returns the empty figure without
\* raising.
C14_EmptyScene ==
  (pc \in {"measured", "charts"} /\ NoElements(result.v))
  => /\ measure.op = "aggregate_bounds" => measure.out = ZeroBox
     /\ measure.op \in {"total_vertices", "total_faces"} => measure.out = 0
     /\ pc = "charts" => _summary = <<>>
     /\ chart.op \in ChartOps => chart.out = Ok(EmptyFigure)

\* the dashboard was asked of a builder over an empty scene
C14_Witness ==
  /\ pc = "charts"
  /\ NoElements(result.v)
  /\ _summary = <<>>
  /\ chart.op = "carbon_kpi_dashboard"
  /\ chart.out = Ok(EmptyFigure)

(***************************************************************************)
(* Intensity analysis.                                                     *)
(***************************************************************************)
HasPositive(r, key) == key \in DOMAIN r /\ r[key] > 0
\* the divisor of a row: its length when positive, otherwise its area when positive
Divisor(r) == IF HasPositive(r, "length") THEN r.length ELSE r.area
DivisorType(r) == IF HasPositive(r, "length") THEN "Length" ELSE "Area"
Divisible(r) == HasCarbon(r) /\ (HasPositive(r, "length") \/ HasPositive(r, "area"))
\* the rows of the summary that have carbon and a divisor, in the order of the summary
DivisibleRows == SelectSeq(_summary, Divisible)
IntensityOf(fig) == IF fig.empty THEN <<>> ELSE fig.intensity_data

\* C15: carbon_intensity_analysis never raises; its result has one entry for each row
\* with non-null carbon and a positive length or area, and no other; the entry divides
\* the row's carbon by the length when that is positive and by the area otherwise, so
\* the divisor is never zero or missing.
C15_IntensityDivisor ==
  (pc = "charts" /\ chart.op = "carbon_intensity_analysis")
  => /\ IsOk(chart.out)
     /\ Len(IntensityOf(chart.out.v)) = Len(DivisibleRows)
     /\ \A i \in 1..Len(DivisibleRows) :
          /\ IntensityOf(chart.out.v)[i].name = DivisibleRows[i].name
          /\ IntensityOf(chart.out.v)[i].carbon = DivisibleRows[i].embodied_carbon.n
          /\ IntensityOf(chart.out.v)[i].dimension = Divisor(DivisibleRows[i])
          /\ IntensityOf(chart.out.v)[i].dimension_type = DivisorType(DivisibleRows[i])
          /\ IntensityOf(chart.out.v)[i].dimension > 0
          /\ IntensityOf(chart.out.v)[i].intensity
               = Frac(DivisibleRows[i].embodied_carbon.n, Divisor(DivisibleRows[i]))

\* a loaded frame has the beam from (0,0,0) to (3,4,0) with carbon 10: its length is 5 and
\* its intensity 10/5 = 2
C15_Witness ==
  /\ pc = "charts"
  /\ path.t = "json"
  /\ chart.op = "carbon_intensity_analysis"
  /\ IsOk(chart.out)
  /\ Len(IntensityOf(chart.out.v)) = 1
  /\ result.v.beams[1].start_point = Vertex(0, 0, 0)
  /\ result.v.beams[1].end_point = Vertex(3, 4, 0)
  /\ IntensityOf(chart.out.v)[1].carbon = 10
  /\ IntensityOf(chart.out.v)[1].dimension = 5
  /\ IntensityOf(chart.out.v)[1].dimension_type = "Length"
  /\ IntensityOf(chart.out.v)[1].intensity.num = 2 * IntensityOf(chart.out.v)[1].intensity.den

(***************************************************************************)
(* A frame of one slab without carbon.                                     *)
(***************************************************************************)
\* a record with four sound corner points and no carbon field
FourCornersNoCarbon(rec) ==
  /\ WellTypedRecord(rec)
  /\ Len(PointPairs(rec)) = 4
  /\ ~HasBadPoint(rec)
  /\ ~HasKey(rec, "CarbonEmission") /\ ~HasKey(rec, "CarbonEmmision")

\* C16: a frame whose only system is a SlabSystem of one 4-corner record without a
\* carbon field, in any of the three payload shapes, gives a summary of exactly one
\* row, a slab row whose embodied_carbon is null, and the aggregations that total
\* carbon have nothing to show for it.
C16_OneSlabWithoutCarbon ==
  ( /\ pc = "charts"
    /\ IsOneSystemFrame(path)
    /\ SystemKindOf(path) = "SlabSystem"
    /\ Len(RecordsOf(PayloadOf(path))) = 1
    /\ FourCornersNoCarbon(RecordsOf(PayloadOf(path))[1]) )
  => /\ Len(_summary) = 1
     /\ "area" \in DOMAIN _summary[1]
     /\ IsNone(_summary[1].embodied_carbon)
     /\ chart.op \in TotalsOps => chart.out = Ok(EmptyFigure)

(***************************************************************************)
(* Generated names of frame elements.                                      *)
(***************************************************************************)
DecimalDigit(d) == SubSeq("0123456789", d + 1, d + 1)
\* the three decimal digits of n < 1000
ThreeDigits(n) ==
  DecimalDigit(n \div 100) \o DecimalDigit((n \div 10) % 10) \o DecimalDigit(n % 10)
PositionalName(prefix, n) == prefix \o "_" \o ThreeDigits(n)
\* element i of elems is named after its position in the list
NamedByPosition(elems, prefix) ==
  \A i \in 1..Len(elems) : elems[i].name = PositionalName(prefix, i - 1)
\* the names count up from 000 in runs, one run for each system payload they came from
NamedInRuns(elems, prefix) ==
  \A i \in 1..Len(elems) :
    \E n \in 0..(i - 1) :
      /\ elems[i].name = PositionalName(prefix, n)
      /\ n > 0 => elems[i - 1].name = PositionalName(prefix, n - 1)
IsFrameFile(f) == IsObjectFile(f) /\ HasKey(f.data, "StructuralFrame")

\* C17: every beam, column and slab of a loaded frame is named "Beam_NNN",
\* "Column_NNN" or "Floor_NNN", NNN being the position of its record in the element
\* list of its system, from 000, in three digits; a frame given as one object has one
\* element list for each system, a frame given as a list of objects one for each
\* system of each object.
C17_PositionalNames ==
  (pc # "start" /\ IsFrameFile(path) /\ IsOk(result))
  => IF IsDict(Get(path.data, "StructuralFrame"))
       THEN /\ NamedByPosition(result.v.beams, "Beam")
            /\ NamedByPosition(result.v.columns, "Column")
            /\ NamedByPosition(result.v.slabs, "Floor")
       ELSE /\ NamedInRuns(result.v.beams, "Beam")
            /\ NamedInRuns(result.v.columns, "Column")
            /\ NamedInRuns(result.v.slabs, "Floor")

\* a frame of three systems was loaded: two beams, a column and a slab
C17_Witness ==
  /\ pc = "loaded"
  /\ IsFrameFile(path)
  /\ IsDict(Get(path.data, "StructuralFrame"))
  /\ IsOk(result)
  /\ Len(result.v.beams) = 2
  /\ result.v.beams[2].name = "Beam_001"
  /\ Len(result.v.columns) = 1
  /\ result.v.columns[1].name = "Column_000"
  /\ Len(result.v.slabs) = 1
  /\ result.v.slabs[1].name = "Floor_000"

(***************************************************************************)
(* Totals of a mesh export.                                                *)
(***************************************************************************)
\* the sum over the blocks of the length of one of their raw arrays, divided by per
RawCount(blocks, key, per) ==
  SumSeq([i \in 1..Len(blocks) |-> Len(ArrayOf(blocks[i], key).items) \div per])

\* C18: for a Scene loaded from a mesh export whose vertex and face arrays are valid,
\* total_vertices() is the sum over the blocks of the raw vertex array length / 3 and
\* total_faces() the sum over the blocks of the raw face array length / 4.
C18_TotalsOfExport ==
  ( /\ pc = "measured"
    /\ WellTypedExport(path)
    /\ \A i \in 1..Len(BlocksOf(path)) : SoundBlock(BlocksOf(path)[i]) )
  => /\ measure.op = "total_vertices"
          => measure.out = RawCount(BlocksOf(path), "vertices", 3)
     /\ measure.op = "total_faces"
          => measure.out = RawCount(BlocksOf(path), "faces", 4)

\* the faces of an export of three blocks with faces in two of them were counted
C18_Witness ==
  /\ pc = "measured"
  /\ WellTypedExport(path)
  /\ Len(BlocksOf(path)) = 3
  /\ \A i \in 1..3 : SoundBlock(BlocksOf(path)[i])
  /\ Len(FacesOf(BlocksOf(path)[1])) = 8
  /\ Len(FacesOf(BlocksOf(path)[2])) = 0
  /\ Len(FacesOf(BlocksOf(path)[3])) = 4
  /\ measure = Measured("total_faces", 3)

(***************************************************************************)
(* Records without points among the element records of a system.           *)
(***************************************************************************)
\* a dict with no key that starts with "point", whatever the case
MetadataShaped(rec) == IsDict(rec) /\ PointPairs(rec) = <<>>
\* a record with the points its system asks for, each three numeric components
GeometryRecord(kind, rec) ==
  /\ WellTypedRecord(rec)
  /\ PointPairs(rec) # <<>>
  /\ ~HasBadPoint(rec)
  /\ kind # "SlabSystem" => HasKey(rec, "PointStart") /\ HasKey(rec, "PointEnd")
AllElements(scene) == scene.beams \o scene.columns \o scene.slabs
\* the element records of the one system of a frame are inside a list of the payload
\* or inside its "elements" list
RecordsNested(f) == ListOfLists(PayloadOf(f)) \/ WrapsElements(PayloadOf(f))

\* C19: when the element records of a system, inside a nested list or an "elements"
\* list, are geometry records and dicts without any point field, the load does not
\* raise, each geometry record gives one element, and the dicts without points give
\* none.
C19_MetadataAmongRecords ==
  ( /\ pc # "start"
    /\ IsOneSystemFrame(path)
    /\ RecordsNested(path)
    /\ \E i \in 1..Len(RecordsOf(PayloadOf(path))) :
         MetadataShaped(RecordsOf(PayloadOf(path))[i])
    /\ \A i \in 1..Len(RecordsOf(PayloadOf(path))) :
         \/ MetadataShaped(RecordsOf(PayloadOf(path))[i])
         \/ GeometryRecord(SystemKindOf(path), RecordsOf(PayloadOf(path))[i]) )
  => /\ IsOk(result)
     /\ Len(AllElements(result.v))
          = Len(SelectSeq(RecordsOf(PayloadOf(path)), LAMBDA rec : ~MetadataShaped(rec)))

(***************************************************************************)
(* Records that reach per-element parsing without their points.            *)
(***************************************************************************)
\* the records the element loop of a sub-parser goes through
ReachedRecords(f) == SelectSeq(RecordsOf(PayloadOf(f)), IsDict)
\* a beam or column record without PointStart or PointEnd, a slab record without any
\* point key
Pointless(kind, rec) ==
  IF kind = "SlabSystem" THEN PointPairs(rec) = <<>>
  ELSE ~HasKey(rec, "PointStart") \/ ~HasKey(rec, "PointEnd")
\* the message for the record at position n, from 0
MissingPointsMessage(kind, n) ==
  IF kind = "SlabSystem" THEN "Slab " \o DecimalDigit(n) \o " missing corner points"
  ELSE "Missing start/end point in element " \o DecimalDigit(n)
\* the record at i is the first one the loop cannot turn into an element, for want of
\* points
FirstPointless(f, i) ==
  /\ Pointless(SystemKindOf(f), ReachedRecords(f)[i])
  /\ \A j \in 1..(i - 1) : GeometryRecord(SystemKindOf(f), ReachedRecords(f)[j])

\* C20: a beam or column record that reaches per-element parsing without a PointStart
\* or a PointEnd, and a slab record without any key that starts with "point", make
\* load_scene raise MeshParseError with a message that names the position of the
\* record; no Scene is returned, whatever elements were parsed before it.
C20_MissingPointsAbort ==
  ( /\ pc # "start"
    /\ IsOneSystemFrame(path)
    /\ RecordsNested(path) )
  => \A i \in 1..Len(ReachedRecords(path)) :
       FirstPointless(path, i)
         => result = Raise("MeshParseError", MissingPointsMessage(SystemKindOf(path), i - 1))

\* a beam record without PointStart came after a beam that parses
C20_Witness ==
  /\ pc = "loaded"
  /\ IsOneSystemFrame(path)
  /\ RecordsNested(path)
  /\ SystemKindOf(path) = "BeamSystem"
  /\ Len(ReachedRecords(path)) = 2
  /\ FirstPointless(path, 2)
  /\ result = Raise("MeshParseError", "Missing start/end point in element 1")

(***************************************************************************)
(* The corner order of a slab.                                             *)
(***************************************************************************)
\* the records with the pairs of rec in every order
Reorderings(rec) ==
  { PyDict([i \in 1..Len(rec.pairs) |-> rec.pairs[f[i]]]) :
      f \in Permutations(1..Len(rec.pairs)) }
\* a frame of the slab system alone, with one record that has sound corner points
OneSlabFrame(f) ==
  /\ IsOneSystemFrame(f)
  /\ SystemKindOf(f) = "SlabSystem"
  /\ RecordsNested(f)
  /\ Len(ReachedRecords(f)) = 1
  /\ GeometryRecord("SlabSystem", ReachedRecords(f)[1])

\* C21: the corners of a slab are the values of the keys of its record that start with
\* "point" in any case, one corner for each such key, and their order is the same for
\* every order in which the record lists its keys.
C21_CornerOrder ==
  (pc # "start" /\ OneSlabFrame(path))
  => /\ IsOk(result)
     /\ Len(result.v.slabs) = 1
     /\ Len(result.v.slabs[1].corners) = Len(PointPairs(ReachedRecords(path)[1]))
     /\ \A rec \in Reorderings(ReachedRecords(path)[1]) :
          ParseSlabElement(rec, 0, "Floor").v.corners = result.v.slabs[1].corners

(***************************************************************************)
(* The order of the groups of the pie.                                     *)
(***************************************************************************)
\* the position in the summary of the first row with a carbon value that the
\* classifier of the call gave the label
FirstSeen(called, label) ==
  Min({i \in Filtered : Classify(called.op, called.classifier, _summary[i]) = label})
PieGroups == chart.out.v.groups

\* C22: the groups of the pie are listed by non-increasing total carbon, and of two
\* groups with the same total the one whose label was met first in the filtered rows
\* comes first.
C22_PieOrder ==
  (pc = "charts" /\ chart.op = "carbon_pie" /\ IsOk(chart.out) /\ ~chart.out.v.empty)
  => \A i, j \in 1..Len(PieGroups) :
       i < j =>
         \/ PieGroups[i].total_carbon > PieGroups[j].total_carbon
         \/ /\ PieGroups[i].total_carbon = PieGroups[j].total_carbon
            /\ FirstSeen(chart, PieGroups[i].label) < FirstSeen(chart, PieGroups[j].label)

\* a pie of three groups or more: two of the same total, and one listed ahead of a
\* group that was met before it
C22_Witness ==
  /\ pc = "charts"
  /\ chart.op = "carbon_pie"
  /\ IsOk(chart.out) /\ ~chart.out.v.empty
  /\ Len(PieGroups) >= 3
  /\ \E i \in 1..(Len(PieGroups) - 1) :
       PieGroups[i].total_carbon = PieGroups[i + 1].total_carbon
  /\ \E i, j \in 1..Len(PieGroups) :
       i < j /\ FirstSeen(chart, PieGroups[i].label) > FirstSeen(chart, PieGroups[j].label)

(***************************************************************************)
(* Floor binning.                                                          *)
(***************************************************************************)
Abs(n) == IF n < 0 THEN 0 - n ELSE n
\* n is the integer nearest to z / 8.67: z / 8.67 and n differ by at most a half
NearestFloor(z, n) == 2 * Abs(100 * z - StoryHeightHundredths * n) <= StoryHeightHundredths
\* the rows with a carbon value whose max_z is nearest to floor n
OnFloor(n) == {i \in Filtered : NearestFloor(_summary[i].max_z, n)}
FloorBars == chart.out.v.floors

\* C23: carbon_by_floor_level puts every row with a carbon value on one floor, the
\* integer nearest to max_z / 8.67; the floors reported are strictly ascending, each
\* with the count and the total carbon of its rows, so that the counts add up to the
\* number of rows with a carbon value and the totals to their total carbon.
C23_FloorBinning ==
  (pc = "charts" /\ chart.op = "carbon_by_floor_level" /\ Filtered # {})
  => /\ IsOk(chart.out) /\ ~chart.out.v.empty
     /\ \A i \in 1..(Len(FloorBars) - 1) : FloorBars[i].floor < FloorBars[i + 1].floor
     /\ \A i \in 1..Len(FloorBars) :
          /\ FloorBars[i].count = Cardinality(OnFloor(FloorBars[i].floor))
          /\ FloorBars[i].count >= 1
          /\ FloorBars[i].total_carbon = TotalOver(OnFloor(FloorBars[i].floor))
     /\ \A r \in Filtered :
          Cardinality({i \in 1..Len(FloorBars) : r \in OnFloor(FloorBars[i].floor)}) = 1
     /\ SumSeq([i \in 1..Len(FloorBars) |-> FloorBars[i].count]) = Cardinality(Filtered)
     /\ SumSeq([i \in 1..Len(FloorBars) |-> FloorBars[i].total_carbon]) = TotalOver(Filtered)

\* two floors, the upper one with two rows or more, over rows of which one has no
\* carbon value; a row that starts at z = 0 and ends at z = 12 is on floor 1
C23_Witness ==
  /\ pc = "charts"
  /\ chart.op = "carbon_by_floor_level"
  /\ IsOk(chart.out) /\ ~chart.out.v.empty
  /\ Cardinality(Filtered) < Len(_summary)
  /\ Len(FloorBars) = 2
  /\ FloorBars[1].floor = 0
  /\ FloorBars[2].floor = 1 /\ FloorBars[2].count >= 2
  /\ \E r \in OnFloor(1) : _summary[r].min_z = 0 /\ _summary[r].max_z = 12

(***************************************************************************)
(* The application's classifier.                                           *)
(***************************************************************************)
\* the entries of the table whose fragment is in the lower-cased name
Matching(mapping, name) == {i \in 1..Len(mapping) : Contains(lower(name), mapping[i].k)}
\* the label of a row whose matching entries are hits: its tag, else the first
\* matching entry of the table, else the keyword fallback
LabelOfHits(mapping, r, hits) ==
  IF Truthy(r.structural_type) THEN r.structural_type.s
  ELSE IF hits # {} THEN mapping[CHOOSE i \in hits : \A j \in hits : i <= j].v
  ELSE KeywordFallback(r.name)
TableLabel(mapping, r) == LabelOfHits(mapping, r, Matching(mapping, r.name))
\* the label of every row of the summary
TableLabels(mapping) == [i \in 1..Len(_summary) |-> TableLabel(mapping, _summary[i])]
\* the rows with a carbon value that have the label
Labelled(labels, label) == {i \in Filtered : labels[i] = label}
GroupOps == {"carbon_pie", "carbon_aggregation_summary", "carbon_kpi_dashboard"}
\* the call gave every row its label in labels, and its groups are the rows with a
\* carbon value under these labels
GroupedBy(labels) ==
  /\ \A i \in 1..Len(_summary) :
       Classify(chart.op, chart.classifier, _summary[i]) = labels[i]
  /\ (chart.op \in GroupOps /\ IsOk(chart.out) /\ ~chart.out.v.empty)
       => /\ \A g \in 1..Len(chart.out.v.groups) :
               chart.out.v.groups[g].count
                 = Cardinality(Labelled(labels, chart.out.v.groups[g].label))
          /\ \A i \in Filtered :
               \E g \in 1..Len(chart.out.v.groups) :
                 chart.out.v.groups[g].label = labels[i]

\* C24: with the application's classifier a row without a structural type whose
\* lower-cased name contains a fragment of the table gets the label of the first such
\* entry of the table, whatever built-in keyword the name contains; the keyword
\* fallback applies when no fragment matches, and "Other" when no keyword does either.
\* The groups of a call are the rows with a carbon value under these labels.
C24_TableBeforeKeywords ==
  (pc = "charts" /\ chart.op \in ClassifierOps /\ chart.classifier.t = "app")
    => GroupedBy(TableLabels(chart.classifier.mapping))

\* with the table girder -> Girders, post -> Posts, floor -> Decks, a row named with
\* "floor" and "girder" and no structural type is in the group Girders, and a row
\* that matches no fragment is in the group of its keyword
C24_Witness ==
  /\ pc = "charts"
  /\ chart.op = "carbon_pie"
  /\ chart.classifier = AppClassifierOf(EditedMapping)
  /\ IsOk(chart.out) /\ ~chart.out.v.empty
  /\ \E i \in Filtered :
       /\ ~Truthy(_summary[i].structural_type)
       /\ Contains(lower(_summary[i].name), "floor")
       /\ Contains(lower(_summary[i].name), "girder")
  /\ \E i \in Filtered :
       /\ ~Truthy(_summary[i].structural_type)
       /\ Matching(EditedMapping, _summary[i].name) = {}
       /\ KeywordFallback(_summary[i].name) # "Other"
  /\ \E g \in 1..Len(chart.out.v.groups) : chart.out.v.groups[g].label = "Girders"
  /\ \A g \in 1..Len(chart.out.v.groups) : chart.out.v.groups[g].label # "Decks"

(***************************************************************************)
(* The box around a scene.                                                 *)
(***************************************************************************)
\* the points of a scene: mesh vertices, ends of beams and columns, slab corners
PointsOf(scene) ==
  UNION {{scene.meshes[i].vertices[k] : k \in 1..Len(scene.meshes[i].vertices)} :
           i \in 1..Len(scene.meshes)}
    \cup UNION {{scene.beams[i].start_point, scene.beams[i].end_point} :
                  i \in 1..Len(scene.beams)}
    \cup UNION {{scene.columns[i].start_point, scene.columns[i].end_point} :
                  i \in 1..Len(scene.columns)}
    \cup UNION {{scene.slabs[i].corners[k] : k \in 1..Len(scene.slabs[i].corners)} :
                  i \in 1..Len(scene.slabs)}
Coordinates(p) == <<p.x, p.y, p.z>>
\* every point is between lo and hi on each axis
Encloses(lo, hi, points) ==
  \A p \in points : \A k \in 1..3 : lo[k] <= Coordinates(p)[k] /\ Coordinates(p)[k] <= hi[k]
\* each of the six bounds is the coordinate of some point
Attained(lo, hi, points) ==
  \A k \in 1..3 :
    /\ \E p \in points : Coordinates(p)[k] = lo[k]
    /\ \E p \in points : Coordinates(p)[k] = hi[k]

\* C25: aggregate_bounds() returns (min, max) such that every mesh vertex, beam end,
\* column end and slab corner of the Scene lies in the box and each of the six bounds is
\* attained by one of these points; it returns the zero box for a Scene without points.
C25_BoundingBox ==
  (pc = "measured" /\ measure.op = "aggregate_bounds")
  => IF PointsOf(result.v) = {} THEN measure.out = ZeroBox
     ELSE /\ Encloses(measure.out[1], measure.out[2], PointsOf(result.v))
          /\ Attained(measure.out[1], measure.out[2], PointsOf(result.v))

\* a loaded frame of beams, a column and a slab at z = 12: the box goes from the
\* origin to (3, 4, 12)
C25_Witness ==
  /\ pc = "measured"
  /\ measure.op = "aggregate_bounds"
  /\ path.t = "json"
  /\ result.v.beams # <<>> /\ result.v.columns # <<>> /\ result.v.slabs # <<>>
  /\ measure.out = <<<<0, 0, 0>>, <<3, 4, 12>>>>
  /\ \A i \in 1..Len(result.v.slabs) :
       \A k \in 1..Len(result.v.slabs[i].corners) : result.v.slabs[i].corners[k].z = 12

(***************************************************************************)
(* The total at the frame level.                                           *)
(***************************************************************************)
\* the objects of a frame that may carry a total: the frame itself, or the entries of
\* a frame given as a list
FrameObjects(f) ==
  IF IsDict(Get(f.data, "StructuralFrame")) THEN <<Get(f.data, "StructuralFrame")>>
  ELSE IF IsList(Get(f.data, "StructuralFrame"))
  THEN SelectSeq(Get(f.data, "StructuralFrame").items, IsDict)
  ELSE <<>>
HasTotal(object) == HasKey(object, "TotalCO2")
\* the number a scalar stands for: itself, or the digits of a string
NumberOf(v) == IF IsNum(v) THEN v.n ELSE DigitsValue(v.s)
\* the totals of the frame level, in the order of the payload
FrameTotals(f) ==
  [i \in 1..Len(SelectSeq(FrameObjects(f), HasTotal)) |->
     NumberOf(Lookup(SelectSeq(FrameObjects(f), HasTotal)[i], "TotalCO2"))]
\* the scene metadata has the number under the key, in either spelling of the key
CarriesTotal(metadata, n) ==
  \E i \in 1..Len(metadata) :
    lower(metadata[i].k) = "totalco2" /\ metadata[i].v = PyNum(n)

\* C26: a scalar TotalCO2 at the frame level of a structural-frame payload is in the
\* metadata of the loaded Scene with the value the payload gives it, when the frame is
\* one object and when it is a list of objects.
C26_FrameTotalCarried ==
  (pc # "start" /\ IsFrameFile(path) /\ IsOk(result) /\ FrameTotals(path) # <<>>)
  => CarriesTotal(result.v.metadata, FrameTotals(path)[Len(FrameTotals(path))])

(***************************************************************************)
(* What the aggregations leave alone.                                      *)
(***************************************************************************)
\* the call and its argument, without the result
CallOf(called) == [op |-> called.op, classifier |-> called.classifier]

\* C27: an aggregation call of ChartsBuilder, with any classifier, leaves the rows the
\* builder holds and the Scene as they were, and a call repeated right after itself
\* gives the result it gave before.
C27_AggregationsReadOnly ==
  [][ (pc = "charts" /\ pc' = "charts")
        => /\ _summary' = _summary
           /\ result' = result
           /\ (chart.op # "none" /\ CallOf(chart') = CallOf(chart)) => chart'.out = chart.out
    ]_vars

\* after an aggregation summary of two groups or more the builder holds the rows
\* summary() gave it
C27_Witness ==
  /\ pc = "charts"
  /\ chart.op = "carbon_aggregation_summary"
  /\ chart.classifier = NoClassifier
  /\ IsOk(chart.out) /\ ~chart.out.v.empty
  /\ Len(chart.out.v.groups) >= 2
  /\ \E i \in Filtered : ~Truthy(_summary[i].structural_type)
  /\ _summary = summary(result.v)

\* what the claim compares of a scene: name, carbon and type of each summary row
RowsCompared(rows) ==
  [i \in 1..Len(rows) |->
     <<rows[i].name, rows[i].embodied_carbon, rows[i].structural_type>>]

\* C28: when both load_scene and MeshScene.from_dict accept a structural-frame
\* payload, the two scenes have the same numbers of beams, columns and slabs, and
\* their summary() rows agree in name, embodied_carbon and structural_type.
C28_EntryPointsAgree ==
  (pc = "measured" /\ measure.op = "from_dict" /\ IsOk(measure.out))
    => /\ Len(measure.out.v.beams) = Len(result.v.beams)
       /\ Len(measure.out.v.columns) = Len(result.v.columns)
       /\ Len(measure.out.v.slabs) = Len(result.v.slabs)
       /\ RowsCompared(summary(measure.out.v)) = RowsCompared(summary(result.v))

\* the names of a collection are pairwise distinct
DistinctNames(elements) ==
  \A i, j \in 1..Len(elements) : i # j => elements[i].name # elements[j].name

\* C29: in a Scene the structural-frame sub-parser returns, no two beams share a
\* name, no two columns do and no two slabs do, whichever variant the
\* StructuralFrame has and however many of its entries carry the same system.
C29_NamesDistinct ==
  (pc = "loaded" /\ IsOk(result) /\ IsFrameFile(path))
    => /\ DistinctNames(result.v.beams)
       /\ DistinctNames(result.v.columns)
       /\ DistinctNames(result.v.slabs)

\* C30: whenever at least one row has a carbon value, also when every such value
\* is 0, carbon_kpi_dashboard returns a dashboard without raising, and every
\* group of the dashboard counts at least one row.
C30_KpiNeverDividesByZero ==
  (chart.op = "carbon_kpi_dashboard" /\ CarbonRows(_summary) # <<>>)
    => /\ IsOk(chart.out)
       /\ ~chart.out.v.empty
       /\ \A i \in 1..Len(chart.out.v.groups) : chart.out.v.groups[i].count >= 1
=============================================================================
